---- MODULE Spec2Model ----
(***************************************************************************)
(* Progress & Watchlist store of the streaming back end: the WatchRecord   *)
(* collection (models/Watchlist.js), the request handlers that write it    *)
(* (controllers/episodeController.js and the watchlist controller) and the *)
(* per-title rating aggregate kept on Content.analytics; the cache         *)
(* (config/redis.js and CacheService) with the handlers that read through  *)
(* it, and the feed pages FeedService.generateRandomFeed builds.           *)
(*                                                                         *)
(* Numbers the code keeps as doubles (percentageWatched, averageRating)    *)
(* are exact rationals <<numerator, denominator>> in lowest terms.         *)
(* Dates are readings of a logical clock: every handler reads the instant  *)
(* now + 1, and the clock advances when that instant is stored as some     *)
(* record's completedAt, so two stamps of two requests always differ.      *)
(***************************************************************************)
EXTENDS Integers, Sequences, FiniteSets, TLC

\* ---------------------------------------------------------------- bounds
MaxPos == 6
MaxClock == 2
MaxRatings == 3
MaxLikes == 2
MaxLimit == 3
MaxStamp == 3
MaxTime == 3

\* ------------------------------------------------------ program constants
CompletionThreshold == 80
MinRating == 1
MaxRating == 5

\* ------------------------------------------------------------- catalogue
Users == {"u1", "u2"}
Contents == {"c1"}
Episodes == {"e1", "e2"}
EpisodeContent(e) == "c1"
EpisodeDuration(e) == IF e = "e3" THEN 20 ELSE 5
Positions == 0 .. MaxPos
Ratings == {MinRating, MaxRating}

VARIABLES
    watchlist,   \* the Watchlist collection, in insertion (natural) order
    content,     \* Content.analytics.{averageRating, totalRatings} per title
    now,         \* logical clock: the latest instant stored as a completedAt
    response,    \* the response of the last request handled
    rated,       \* history: the latest rating each user gave each title (0: none)
    ryw,         \* history: the current run of acknowledged progress updates
    reqs,        \* concurrent requests in flight (SpecConc)
    db0,         \* the collection as it was when the concurrent requests began
    episodes,    \* Episode.analytics.likes per episode
    tog,         \* history: the current run of toggleLike calls on one record
    cache,       \* the Redis keys that hold a value and have not expired
    tagsets,     \* the Redis sets of CacheService tags that have not expired
    time,        \* the time elapsed, in units of 300 s
    redis,       \* the client of config/redis.js: ready, closed or none
    ret          \* what the last CacheService call returned

cacheRest == <<tagsets, time, redis, ret>>
cacheVars == <<cache, tagsets, time, redis, ret>>
vars == <<watchlist, content, now, response, rated, ryw, reqs, db0, episodes, tog,
          cache, tagsets, time, redis, ret>>

\* ------------------------------------------------------------- rationals
RECURSIVE GCD(_, _)
GCD(a, b) == IF b = 0 THEN a ELSE GCD(b, a % b)

Abs(n) == IF n < 0 THEN -n ELSE n

\* n / d as a double would hold it, exactly; <<1, 0>> and <<-1, 0>> are the
\* infinities and <<0, 0>> is NaN
Rat(n, d) == LET g == GCD(Abs(n), Abs(d))
             IN  IF g = 0 THEN <<0, 0>>
                 ELSE IF d < 0 THEN <<(-n) \div g, (-d) \div g>> ELSE <<n \div g, d \div g>>

Zero == <<0, 1>>
RatOfInt(n) == <<n, 1>>
RatMul(a, b) == Rat(a[1] * b[1], a[2] * b[2])
RatAdd(a, b) == Rat(a[1] * b[2] + b[1] * a[2], a[2] * b[2])
RatSub(a, b) == Rat(a[1] * b[2] - b[1] * a[2], a[2] * b[2])
RatDiv(a, b) == Rat(a[1] * b[2], a[2] * b[1])
RatGE(a, b) == a[1] * b[2] >= b[1] * a[2]
RatLE(a, b) == RatGE(b, a)
RatGT(a, b) == a[1] * b[2] > b[1] * a[2]
RatLT(a, b) == RatGT(b, a)

Max(a, b) == IF a >= b THEN a ELSE b

\* ------------------------------------------------------- the WatchRecord
\* A document as Watchlist.create builds it from the fields a handler gives
\* and the schema defaults (completedAt 0 and rating 0: the path is unset).
NewRecord(u, c, e, pos, pct) ==
    [userId |-> u, contentId |-> c, episodeId |-> e,
     currentPosition |-> pos, totalDuration |-> EpisodeDuration(e),
     percentageWatched |-> pct, isCompleted |-> FALSE,
     status |-> "watching", completedAt |-> 0, rating |-> 0, liked |-> FALSE]

Percentage(pos, dur) == RatMul(Rat(pos, dur), RatOfInt(100))

ReachedThreshold(pct) == RatGE(pct, RatOfInt(CompletionThreshold))

StampAlways(d, t) == t

\* the completedAt the save hook leaves on a record that reached the threshold
PreSaveStamp(d, t) == IF d.completedAt = 0 THEN t ELSE d.completedAt

\* a save hook that sets the completion flag to what the percentage says
SaveRecomputed(d, t) ==
    IF d.currentPosition # 0 /\ d.totalDuration # 0
    THEN LET pct == Percentage(d.currentPosition, d.totalDuration)
         IN  [d EXCEPT !.percentageWatched = pct,
                        !.isCompleted = ReachedThreshold(pct),
                        !.status = IF ReachedThreshold(pct) THEN "completed" ELSE "watching",
                        !.completedAt = IF ReachedThreshold(pct) THEN PreSaveStamp(d, t) ELSE 0]
    ELSE d

\* watchlistSchema.pre('save'), run at instant t

PreSave(d, t) ==
    IF d.currentPosition # 0 /\ d.totalDuration # 0
    THEN LET pct == Percentage(d.currentPosition, d.totalDuration)
         IN  IF ReachedThreshold(pct)
             THEN [d EXCEPT !.percentageWatched = pct,
                            !.isCompleted = TRUE,
                            !.status = "completed",
                            !.completedAt = PreSaveStamp(d, t)]
             ELSE [d EXCEPT !.percentageWatched = pct]
    ELSE d

OverwritePosition(old, submitted) == submitted

\* the position updateProgress stores
NewPosition(old, submitted) == Max(old, submitted)

\* watchlistSchema.methods.updateProgress, up to its save
UpdateProgressDoc(d, p) ==
    [d EXCEPT !.currentPosition = NewPosition(d.currentPosition, p)]

\* watchlistSchema.methods.markAsCompleted, up to its save
MarkAsCompletedDoc(d, t) ==
    [d EXCEPT !.isCompleted = TRUE, !.status = "completed", !.completedAt = t]

\* watchlistSchema.methods.toggleLike, up to its save
ToggleLikeDoc(d) == [d EXCEPT !.liked = ~d.liked]

\* watchlistSchema.methods.updateRating, up to its save
UpdateRatingDoc(d, r) == [d EXCEPT !.rating = r]

\* -------------------------------------------------------- the collection
Matches(wl, u, e) == {i \in 1 .. Len(wl) : wl[i].userId = u /\ wl[i].episodeId = e}
MatchesContent(wl, u, c) == {i \in 1 .. Len(wl) : wl[i].userId = u /\ wl[i].contentId = c}

First(S) == IF S = {} THEN 0 ELSE CHOOSE i \in S : \A j \in S : i <= j

\* Watchlist.findOne({userId, episodeId}): the index of the first match, 0 if none
FindOne(wl, u, e) == First(Matches(wl, u, e))

FindOneOfAnyUser(wl, u, c) == First({i \in 1 .. Len(wl) : wl[i].contentId = c})

\* Watchlist.findOne({userId, contentId})
FindOneByContent(wl, u, c) == First(MatchesContent(wl, u, c))

NoUniqueIndex(wl, d) == TRUE

\* the unique index on (userId, episodeId): may d be inserted?
UniqueIndexAllows(wl, d) == Matches(wl, d.userId, d.episodeId) = {}

\* Watchlist.create(d) at instant t: the save hook runs, then the insert
Insert(wl, d, t) == IF UniqueIndexAllows(wl, d) THEN Append(wl, PreSave(d, t)) ELSE wl

RECURSIVE Remove(_, _)
\* the documents of wl that are not at an index of S, in order
Remove(wl, S) ==
    IF wl = <<>> THEN <<>>
    ELSE LET n == Len(wl)
             front == Remove(SubSeq(wl, 1, n - 1), S)
         IN  IF n \in S THEN front ELSE Append(front, wl[n])

\* the latest completedAt stored anywhere: the clock never runs behind it
RECURSIVE Latest(_, _)
Latest(wl, t) == IF wl = <<>> THEN t ELSE Latest(Tail(wl), Max(t, Head(wl).completedAt))

NoProgress == {}

Entry(d) == [episodeId |-> d.episodeId,
             currentPosition |-> d.currentPosition,
             percentageWatched |-> d.percentageWatched,
             isCompleted |-> d.isCompleted]

\* a response: the handler, the status code, whose request, and the progress
\* entries of its body (one per episode reported, none when it reports none)
Reply(op, code, u, e, data) == [op |-> op, code |-> code, userId |-> u, episodeId |-> e, data |-> data]

NoRun == [userId |-> "", episodeId |-> "", n |-> 0, mx |-> 0]

\* the run of acknowledged updateProgress calls on one record, after one more
Acked(u, e, p) ==
    IF ryw.userId = u /\ ryw.episodeId = e
    THEN [ryw EXCEPT !.n = IF @ < 2 THEN @ + 1 ELSE @, !.mx = Max(@, p)]
    ELSE [userId |-> u, episodeId |-> e, n |-> 1, mx |-> p]

\* a write that is not a progress update ends the run on the records it touches
Broken(u, E) == IF ryw.userId = u /\ ryw.episodeId \in E THEN NoRun ELSE ryw

\* ---------------------------------------------------------------- the cache
\* A key is the sequence of the segments its text has between colons. A
\* stored value is the JSON text of what was given.
NoEntries == [k \in {} |-> {}]
NoReturn == [op |-> "none", key |-> <<>>, tags |-> {}, raised |-> FALSE, ok |-> TRUE,
             hit |-> {}, count |-> 0]

Stringify(v) == <<"json", v>>
Parse(text) == text[2]

\* The values given to the cache, by type: an array with its elements, and
\* null, a boolean, a number or a string with its JSON text.
Array(q) == [type |-> "array", val |-> q]
Null == [type |-> "null", val |-> "null"]
NilValues == {Null, [type |-> "boolean", val |-> "false"], [type |-> "number", val |-> "0"],
              [type |-> "string", val |-> ""]}

\* !value
Falsy(j) ==
    \/ j.type = "null"
    \/ j.type = "boolean" /\ j.val = "false"
    \/ j.type = "number" /\ j.val = "0"
    \/ j.type = "string" /\ j.val = ""

\* what a handler takes from getCache as cached: if (!cached) it goes to the
\* store. The handlers store arrays.
Cached(H) == {j.val : j \in {x \in H : ~Falsy(x)}}

\* SETEX key ttl value at time t; outdated and tags are history: the entry was
\* stored before a later progress write of its user; the tags a setWithTags
\* that returned true gave it
SetEx(c, k, v, ttl, t) ==
    (k :> [value |-> Stringify(v), expires |-> t + ttl, outdated |-> FALSE, tags |-> {}]) @@ c

\* GET key: the texts found, none or one
RedisGet(c, k) == IF k \in DOMAIN c THEN {c[k].value} ELSE {}

\* DEL key ...: the keys are taken as they are written
Del(c, K) == [k \in DOMAIN c \ K |-> c[k]]

\* does key k match the glob pattern p, whose last segment is "*"?
Glob(p, k) ==
    /\ Len(k) >= Len(p) - 1
    /\ SubSeq(k, 1, Len(p) - 1) = SubSeq(p, 1, Len(p) - 1)

\* KEYS pattern
RedisKeys(c, p) == {k \in DOMAIN c : Glob(p, k)}

\* what has not expired at time t (an entry with expires < 0 has no expiry)
Unexpired(c, t) == [k \in {x \in DOMAIN c : c[x].expires < 0 \/ c[x].expires > t} |-> c[k]]

CacheAtStart ==
    /\ cache = NoEntries
    /\ tagsets = NoEntries
    /\ time = 0
    /\ redis = "ready"
    /\ ret = NoReturn

\* config/redis.js deleteCache(key), as the handlers call it
DeleteCache(c, mode, k) == IF mode = "ready" THEN Del(c, {k}) ELSE c

RECURSIVE Evicted(_, _, _, _)
\* the handlers' runs of deleteCache(`name:${userId}*`), one per name
Evicted(c, mode, u, names) ==
    IF names = <<>> THEN c
    ELSE Evicted(DeleteCache(c, mode, <<Head(names), u \o "*">>), mode, u, Tail(names))

\* history: the entries of user u that are left are from before a write of u
Outdated(c, u) ==
    [k \in DOMAIN c |-> IF \E i \in 1 .. Len(k) : k[i] = u
                         THEN [c[k] EXCEPT !.outdated = TRUE] ELSE c[k]]

NoToggles == [userId |-> "", episodeId |-> "", n |-> 0, liked |-> FALSE, likes |-> 0]

Init ==
    /\ watchlist = <<>>
    /\ content = [c \in Contents |-> [averageRating |-> Zero, totalRatings |-> 0]]
    /\ now = 0
    /\ response = Reply("none", 0, "", "", NoProgress)
    /\ rated = [u \in Users |-> [c \in Contents |-> 0]]
    /\ ryw = NoRun
    /\ reqs = <<>>
    /\ db0 = <<>>
    /\ episodes = [e \in Episodes |-> [likes |-> 0]]
    /\ tog = NoToggles
    /\ CacheAtStart

\* every handler: the collection it leaves, and the clock kept up with it
Commit(wl) ==
    /\ Latest(wl, now) <= MaxClock
    /\ watchlist' = wl
    /\ now' = Latest(wl, now)

\* ------------------------------------------------- handlers, one at a time
\* POST /api/episodes/:episodeId/start
StartWatching(u, e) ==
    LET t == now + 1
        i == FindOne(watchlist, u, e)
        wl == IF i # 0
              THEN [watchlist EXCEPT ![i] = PreSave(watchlist[i], t)]
              ELSE Insert(watchlist, NewRecord(u, EpisodeContent(e), e, 0, Zero), t)
    IN  /\ Commit(wl)
        /\ response' = Reply("start", 200, u, e, NoProgress)
        /\ ryw' = Broken(u, {e})
        /\ cache' = Outdated(cache, u)
        /\ UNCHANGED <<cacheRest, content, rated, reqs, db0, episodes>>
        /\ tog' = NoToggles

\* PUT /api/episodes/:episodeId/progress
UpdateWatchProgress(u, e, p) ==
    LET t == now + 1
        i == FindOne(watchlist, u, e)
        wl1 == IF i # 0 THEN watchlist
               ELSE Insert(watchlist, NewRecord(u, EpisodeContent(e), e, 0, Zero), t)
        j == FindOne(wl1, u, e)
        d == PreSave(UpdateProgressDoc(wl1[j], p), t)
    IN  /\ Commit([wl1 EXCEPT ![j] = d])
        /\ response' = Reply("progress", 200, u, e, {Entry(d)})
        /\ ryw' = Acked(u, e, p)
        /\ cache' = Outdated(cache, u)
        /\ UNCHANGED <<cacheRest, content, rated, reqs, db0, episodes>>
        /\ tog' = NoToggles

\* PUT /api/watchlist/:userId/:episodeId/progress
UpdateWatchlistProgress(u, e, p) ==
    LET t == now + 1
        i == FindOne(watchlist, u, e)
    IN  IF i = 0
        THEN /\ response' = Reply("progress", 404, u, e, NoProgress)
             /\ UNCHANGED <<cacheVars, watchlist, content, now, rated, ryw, reqs, db0, episodes>>
             /\ tog' = NoToggles
        ELSE LET d == PreSave(UpdateProgressDoc(watchlist[i], p), t)
             IN  /\ Commit([watchlist EXCEPT ![i] = d])
                 /\ response' = Reply("progress", 200, u, e, {Entry(d)})
                 /\ ryw' = Acked(u, e, p)
                 /\ cache' = Outdated(Evicted(cache, redis, u, <<"continue_watching", "watch_stats">>), u)
                 /\ UNCHANGED <<cacheRest, content, rated, reqs, db0, episodes>>
                 /\ tog' = NoToggles

\* POST /api/episodes/:episodeId/complete; finalPosition 0 stands for none sent
MarkCompleted(u, e, finalPosition) ==
    LET t == now + 1
        i == FindOne(watchlist, u, e)
    IN  IF i = 0
        THEN /\ response' = Reply("complete", 200, u, e, NoProgress)
             /\ UNCHANGED <<cacheVars, watchlist, content, now, rated, ryw, reqs, db0, episodes>>
             /\ tog' = NoToggles
        ELSE LET d1 == PreSave(MarkAsCompletedDoc(watchlist[i], t), t)
                 d2 == IF finalPosition # 0
                       THEN PreSave([d1 EXCEPT !.currentPosition = finalPosition], t)
                       ELSE d1
             IN  /\ Commit([watchlist EXCEPT ![i] = d2])
                 /\ response' = Reply("complete", 200, u, e, NoProgress)
                 /\ ryw' = Broken(u, {e})
                 /\ cache' = Outdated(cache, u)
                 /\ UNCHANGED <<cacheRest, content, rated, reqs, db0, episodes>>
                 /\ tog' = NoToggles

\* the run of toggleLike calls on one record, after one more: it remembers the
\* like flag and the like counter from before its first call
Toggled(u, e) ==
    IF tog.userId = u /\ tog.episodeId = e /\ tog.n = 1
    THEN [tog EXCEPT !.n = 2]
    ELSE LET i == FindOne(watchlist, u, e)
         IN  [userId |-> u, episodeId |-> e, n |-> 1,
              liked |-> IF i = 0 THEN FALSE ELSE watchlist[i].liked,
              likes |-> episodes[e].likes]

LikesOnlyUp(likes, wasLiked, liked) == IF liked /\ ~wasLiked THEN likes + 1 ELSE likes

\* the like counter the handler computes on its copy of the episode
LikesAfter(likes, wasLiked, liked) ==
    IF liked /\ ~wasLiked THEN likes + 1
    ELSE IF ~liked /\ wasLiked THEN likes - 1
    ELSE likes

\* POST /api/episodes/:episodeId/like
ToggleLike(u, e) ==
    LET t == now + 1
        i == FindOne(watchlist, u, e)
        wl1 == IF i # 0 THEN watchlist
               ELSE Insert(watchlist, NewRecord(u, EpisodeContent(e), e, 0, Zero), t)
        j == FindOne(wl1, u, e)
        wasLiked == wl1[j].liked
        d == PreSave(ToggleLikeDoc(wl1[j]), t)
        likes == LikesAfter(episodes[e].likes, wasLiked, d.liked)
    IN  /\ Commit([wl1 EXCEPT ![j] = d])
        /\ likes <= MaxLikes
        /\ episodes' = [episodes EXCEPT ![e].likes = likes]
        /\ response' = Reply("like", 200, u, e, NoProgress)
        /\ ryw' = Broken(u, {e})
        /\ tog' = Toggled(u, e)
        /\ UNCHANGED <<cacheVars, content, rated, reqs, db0>>

\* POST /api/watchlist
AddToWatchlist(u, c, e, pos) ==
    LET t == now + 1
        i == FindOne(watchlist, u, e)
    IN  IF i # 0
        THEN /\ response' = Reply("add", 200, u, e, {Entry(watchlist[i])})
             /\ UNCHANGED <<cacheVars, watchlist, content, now, rated, ryw, reqs, db0, episodes>>
             /\ tog' = NoToggles
        ELSE LET wl == Insert(watchlist,
                              NewRecord(u, c, e, pos, Percentage(pos, EpisodeDuration(e))), t)
             IN  /\ Commit(wl)
                 /\ response' = Reply("add", 201, u, e, {Entry(wl[Len(wl)])})
                 /\ ryw' = Broken(u, {e})
                 /\ cache' = Evicted(cache, redis, u, <<"watchlist", "continue_watching">>)
                 /\ UNCHANGED <<cacheRest, content, rated, reqs, db0, episodes>>
                 /\ tog' = NoToggles

\* DELETE /api/watchlist/:userId/:episodeId
RemoveFromWatchlist(u, e) ==
    LET i == FindOne(watchlist, u, e)
    IN  IF i = 0
        THEN /\ response' = Reply("remove", 404, u, e, NoProgress)
             /\ UNCHANGED <<cacheVars, watchlist, content, now, rated, ryw, reqs, db0, episodes>>
             /\ tog' = NoToggles
        ELSE /\ Commit(Remove(watchlist, Matches(watchlist, u, e)))
             /\ response' = Reply("remove", 200, u, e, NoProgress)
             /\ ryw' = Broken(u, {e})
             /\ cache' = Evicted(cache, redis, u, <<"watchlist", "continue_watching">>)
             /\ UNCHANGED <<cacheRest, content, rated, reqs, db0, episodes>>
             /\ tog' = NoToggles

\* DELETE /api/watchlist/:userId/clear, with a contentId or with none ("")
\* (no older_than_days is sent: lastWatchedAt is not part of the state)
ClearWatchHistory(u, c) ==
    LET S == IF c = "" THEN {i \in 1 .. Len(watchlist) : watchlist[i].userId = u}
             ELSE MatchesContent(watchlist, u, c)
    IN  /\ Commit(Remove(watchlist, S))
        /\ response' = Reply("clear", 200, u, "", NoProgress)
        /\ ryw' = Broken(u, Episodes)
        /\ cache' = Evicted(cache, redis, u, <<"watchlist", "continue_watching", "completed",
                                            "watch_stats", "content_progress">>)
        /\ UNCHANGED <<cacheRest, content, rated, reqs, db0, episodes>>
        /\ tog' = NoToggles

\* the Content.analytics a rating leaves: rating replaces previousRating (0: none)
RatingAggregate(a, previousRating, rating) ==
    IF previousRating # 0
    THEN LET totalRatings == a.totalRatings
             currentTotal == RatMul(a.averageRating, RatOfInt(totalRatings))
             newTotal == RatAdd(RatSub(currentTotal, RatOfInt(previousRating)), RatOfInt(rating))
         IN  [a EXCEPT !.averageRating = RatDiv(newTotal, RatOfInt(totalRatings))]
    ELSE LET totalRatings == a.totalRatings + 1
             currentTotal == RatMul(a.averageRating, RatOfInt(a.totalRatings))
             newTotal == RatAdd(currentTotal, RatOfInt(rating))
         IN  [averageRating |-> RatDiv(newTotal, RatOfInt(totalRatings)),
              totalRatings |-> totalRatings]

\* the validators of Content.analytics.averageRating: a number in 0 .. 5
ContentValid(a) ==
    /\ a.averageRating[2] # 0
    /\ RatGE(a.averageRating, Zero)
    /\ RatLE(a.averageRating, RatOfInt(5))

\* POST /api/watchlist/:userId/:contentId/rate
RateContent(u, c, rating) ==
    LET t == now + 1
        i == FindOneByContent(watchlist, u, c)
    IN  IF rating < MinRating \/ rating > MaxRating \/ i = 0
        THEN /\ response' = Reply("rate", 400, u, "", NoProgress)
             /\ UNCHANGED <<cacheVars, watchlist, content, now, rated, ryw, reqs, db0, episodes>>
             /\ tog' = NoToggles
        ELSE LET previousRating == watchlist[i].rating
                 d == PreSave(UpdateRatingDoc(watchlist[i], rating), t)
                 a == RatingAggregate(content[c], previousRating, rating)
             IN  /\ Commit([watchlist EXCEPT ![i] = d])
                 /\ a.totalRatings <= MaxRatings
                 /\ content' = IF ContentValid(a) THEN [content EXCEPT ![c] = a] ELSE content
                 /\ response' = Reply("rate", IF ContentValid(a) THEN 200 ELSE 400, u, "", NoProgress)
                 /\ rated' = [rated EXCEPT ![u][c] = rating]
                 /\ ryw' = Broken(u, {d.episodeId})
                 /\ UNCHANGED <<cacheVars, reqs, db0, episodes>>
                 /\ tog' = NoToggles

\* ------------------------------------------------------------------ reads
\* ObjectId.prototype.toString: the hex string of the id
ObjectIdToString(e) == e

\* Document.prototype.toString of a populated path: the inspect rendering of
\* the whole document, never the hex string of its _id
DocumentToString(e) == "{ _id: " \o e \o ", title, episodeNumber, duration }"

\* GET /api/episodes/:episodeId?userId
GetEpisodeById(u, e) ==
    LET i == FindOne(watchlist, u, e)
    IN  /\ response' = Reply("episode", 200, u, e,
                             IF i = 0 THEN NoProgress ELSE {Entry(watchlist[i])})
        /\ UNCHANGED <<cacheVars, watchlist, content, now, rated, ryw, reqs, db0, episodes>>
        /\ tog' = NoToggles

\* Watchlist.getUserProgress with episodeId populated, then the reduce of
\* getContentEpisodes: the overlay keyed by item.episodeId.toString()
ProgressOverlay(wl, u, c) ==
    LET S == MatchesContent(wl, u, c)
        Keys == {DocumentToString(wl[i].episodeId) : i \in S}
    IN  [k \in Keys |-> LET i == CHOOSE j \in S :
                                   /\ DocumentToString(wl[j].episodeId) = k
                                   /\ \A m \in S : DocumentToString(wl[m].episodeId) = k => m <= j
                        IN  wl[i]]

\* GET /api/content/:contentId/episodes?userId
GetContentEpisodes(u, c) ==
    LET watchProgress == ProgressOverlay(watchlist, u, c)
        shown(e) == IF ObjectIdToString(e) \in DOMAIN watchProgress
                    THEN Entry(watchProgress[ObjectIdToString(e)])
                    ELSE [episodeId |-> e, currentPosition |-> 0,
                          percentageWatched |-> Zero, isCompleted |-> FALSE]
    IN  /\ response' = Reply("episodes", 200, u, "",
                             {shown(e) : e \in {x \in Episodes : EpisodeContent(x) = c}})
        /\ UNCHANGED <<cacheVars, watchlist, content, now, rated, ryw, reqs, db0, episodes>>
        /\ tog' = NoToggles

\* ------------------------------------------------------------ one at a time
\* One viewer and one episode, every handler of the store: the life of one
\* WatchRecord.
Viewers == {"u1"}
Shown == {"e1"}

Next ==
    \/ \E u \in Viewers, e \in Shown : StartWatching(u, e)
    \/ \E u \in Viewers, e \in Shown, p \in Positions : UpdateWatchProgress(u, e, p)
    \/ \E u \in Viewers, e \in Shown, p \in Positions : UpdateWatchlistProgress(u, e, p)
    \/ \E u \in Viewers, e \in Shown, p \in Positions : MarkCompleted(u, e, p)
    \/ \E u \in Viewers, e \in Shown : ToggleLike(u, e)
    \/ \E u \in Viewers, c \in Contents, e \in Shown, p \in Positions : AddToWatchlist(u, c, e, p)
    \/ \E u \in Viewers, e \in Shown : RemoveFromWatchlist(u, e)
    \/ \E u \in Viewers, c \in Contents \cup {""} : ClearWatchHistory(u, c)
    \/ \E u \in Viewers, c \in Contents, r \in Ratings : RateContent(u, c, r)
    \/ \E u \in Viewers, e \in Shown : GetEpisodeById(u, e)
    \/ \E u \in Viewers, c \in Contents : GetContentEpisodes(u, c)

Spec == Init /\ [][Next]_vars

\* POST /api/episodes/:episodeId/share with a userId: the record, when there
\* is one, gets shared = true and is saved; the episode's share counter is not
\* part of the state
ShareEpisode(u, e) ==
    LET t == now + 1
        i == FindOne(watchlist, u, e)
    IN  IF i = 0
        THEN /\ response' = Reply("share", 200, u, e, NoProgress)
             /\ UNCHANGED <<cacheVars, watchlist, content, now, rated, ryw, reqs, db0, episodes>>
             /\ tog' = NoToggles
        ELSE /\ Commit([watchlist EXCEPT ![i] = PreSave(watchlist[i], t)])
             /\ response' = Reply("share", 200, u, e, NoProgress)
             /\ ryw' = Broken(u, {e})
             /\ UNCHANGED <<cacheVars, content, rated, reqs, db0, episodes>>
             /\ tog' = NoToggles

\* One user on one episode, the six handlers that write its record
NextWrites ==
    \/ \E u \in Viewers, e \in Shown : StartWatching(u, e)
    \/ \E u \in Viewers, e \in Shown, p \in Positions : UpdateWatchProgress(u, e, p)
    \/ \E u \in Viewers, e \in Shown, p \in Positions : MarkCompleted(u, e, p)
    \/ \E u \in Viewers, e \in Shown : ToggleLike(u, e)
    \/ \E u \in Viewers, e \in Shown : ShareEpisode(u, e)
    \/ \E u \in Viewers, c \in Contents, r \in Ratings : RateContent(u, c, r)

SpecWrites == Init /\ [][NextWrites]_vars

\* Two users and both episodes of the title, the handlers that decide who has
\* rated it: the life of the title's rating aggregate.
NextRating ==
    \/ \E u \in Users, e \in Episodes : StartWatching(u, e)
    \/ \E u \in Users, c \in Contents, r \in Ratings : RateContent(u, c, r)
    \/ \E u \in Users, e \in Episodes : RemoveFromWatchlist(u, e)
    \/ \E u \in Users, c \in Contents \cup {""} : ClearWatchHistory(u, c)

SpecRating == Init /\ [][NextRating]_vars

\* Two users and both episodes, the handlers that set and drop like flags:
\* the life of the episodes' like counters.
NextLike ==
    \/ \E u \in Users, e \in Episodes : ToggleLike(u, e)
    \/ \E u \in Users, e \in Episodes : StartWatching(u, e)
    \/ \E u \in Users, e \in Episodes : RemoveFromWatchlist(u, e)
    \/ \E u \in Users, c \in Contents \cup {""} : ClearWatchHistory(u, c)

SpecLike == Init /\ [][NextLike]_vars

\* ------------------------------------------------- the continue-watching window
\* Watchlist.getContinueWatching is a query on sessionInfo.lastWatchedAt, which
\* the save hook stamps on every save. The handler specifications keep no such
\* instant on their records; the query is applied to collections whose
\* records carry it: for user u1 one record on each episode of the library
\* (e3 lasts 20 s, so that a position can be exactly 5%), left by
\* updateProgress and, for some, markAsCompleted, and one record of user u2.
Library == Episodes \cup {"e3"}
LibraryOrder == <<"e1", "e2", "e3">>
WindowPositions == {0, 1, 2, 4}
Stamps == 1 .. MaxStamp
Limits == 1 .. MaxLimit
WindowLow == 5

\* the record of u on e as updateProgress(pos), then markAsCompleted when
\* marked, left it at instant t
WatchedTo(u, e, pos, marked, t) ==
    LET d0 == PreSave(NewRecord(u, EpisodeContent(e), e, 0, Zero), t)
        d1 == PreSave(UpdateProgressDoc(d0, pos), t)
        d2 == IF marked THEN PreSave(MarkAsCompletedDoc(d1, t), t) ELSE d1
    IN  [lastWatchedAt |-> t] @@ d2

WindowAtLeastLow(d, u) ==
    /\ d.userId = u
    /\ d.status \in {"watching", "paused"}
    /\ RatGE(d.percentageWatched, RatOfInt(WindowLow))
    /\ RatLT(d.percentageWatched, RatOfInt(CompletionThreshold))

\* the filter of getContinueWatching: $in on status, $gt 5 and $lt 80
InWindow(d, u) ==
    /\ d.userId = u
    /\ d.status \in {"watching", "paused"}
    /\ RatGT(d.percentageWatched, RatOfInt(WindowLow))
    /\ RatLT(d.percentageWatched, RatOfInt(CompletionThreshold))

\* .sort({ 'sessionInfo.lastWatchedAt': -1 })
SortedByLastWatched(q) ==
    \A i, j \in 1 .. Len(q) : i < j => q[i].lastWatchedAt >= q[j].lastWatchedAt

\* .limit(n), n >= 1
Limit(q, n) == SubSeq(q, 1, IF Len(q) < n THEN Len(q) ELSE n)

\* the results the query may give: the matching records in an order sorted on
\* lastWatchedAt (records of equal instant come in either order), cut at limit
ContinueWatching(wl, u, limit) ==
    LET S == {i \in 1 .. Len(wl) : InWindow(wl[i], u)}
        n == Cardinality(S)
        Orders == {f \in [1 .. n -> S] :
                      /\ \A i, j \in 1 .. n : f[i] = f[j] => i = j
                      /\ SortedByLastWatched([k \in 1 .. n |-> wl[f[k]]])}
    IN  {Limit([k \in 1 .. n |-> wl[f[k]]], limit) : f \in Orders}

InitContinue ==
    \E pos \in [Library -> WindowPositions], mk \in [Library -> BOOLEAN], st \in [Library -> Stamps] :
        /\ watchlist = [k \in 1 .. Len(LibraryOrder) |->
                            WatchedTo("u1", LibraryOrder[k], pos[LibraryOrder[k]],
                                      mk[LibraryOrder[k]], st[LibraryOrder[k]])]
                        \o <<WatchedTo("u2", "e1", 2, FALSE, MaxStamp)>>
        /\ content = [c \in Contents |-> [averageRating |-> Zero, totalRatings |-> 0]]
        /\ now = MaxStamp
        /\ response = Reply("none", 0, "", "", <<>>)
        /\ rated = [u \in Users |-> [c \in Contents |-> 0]]
        /\ ryw = NoRun
        /\ reqs = <<>>
        /\ db0 = <<>>
        /\ episodes = [e \in Episodes |-> [likes |-> 0]]
        /\ tog = NoToggles
    /\ CacheAtStart

\* Watchlist.getContinueWatching(userId, limit); reqs keeps the call
ContinueWatchingQuery(u, limit) ==
    /\ \E q \in ContinueWatching(watchlist, u, limit) :
           response' = Reply("continue", 200, u, "", q)
    /\ reqs' = <<[userId |-> u, limit |-> limit]>>
    /\ UNCHANGED <<cacheVars, watchlist, content, now, rated, ryw, db0, episodes, tog>>

NextContinue == \E u \in Users, limit \in Limits : ContinueWatchingQuery(u, limit)

SpecContinue == InitContinue /\ [][NextContinue]_vars

\* ------------------------------------------------------------ CacheService
\* Every method is a run of client calls inside one try block. failAt is the
\* number of the call that throws in this run (0: none does); with the
\* client closed every call throws, and with no client the methods return
\* before their first call.
Modes == {"ready", "closed", "none"}
ServiceKeys == {<<"user", "u1", "feed">>, <<"content", "c1", "details">>}
Patterns == {<<"user", "u1", "*">>}
ServiceValues == {[type |-> "string", val |-> "v"]}
Tags == {<<"user", "u1">>, <<"content", "c1">>}
TagLists == {<<>>} \cup {<<t>> : t \in Tags} \cup {<<<<"user", "u1">>, <<"content", "c1">>>>}
Ttls == {1, 3}
TagGrace == 1
MaxCalls == 5

\* _generateKey: `${this.keyPrefix}${key}`
GenerateKey(k) == <<"shorts_app">> \o k

\* _generateKey(`tag:${tag}`)
TagKey(tag) == GenerateKey(<<"tag">> \o tag)

Throws(mode, failAt, n) == mode = "closed" \/ n = failAt

Rethrown(thrown) == thrown

\* the catch block of every method logs the error and returns
Caught(thrown) == FALSE

Returned(op, k, tags, thrown, ok, hit, count) ==
    [op |-> op, key |-> k, tags |-> tags, raised |-> Caught(thrown), ok |-> ok,
     hit |-> hit, count |-> count]

\* set(key, value, ttl), through setCache: the cache it leaves and whether the
\* SETEX threw
SetCache(c, mode, failAt, k, v, ttl, t) ==
    IF mode = "none" THEN [cache |-> c, thrown |-> FALSE, ok |-> FALSE]
    ELSE IF Throws(mode, failAt, 1) THEN [cache |-> c, thrown |-> TRUE, ok |-> FALSE]
    ELSE [cache |-> SetEx(c, k, v, ttl, t), thrown |-> FALSE, ok |-> TRUE]

GetCacheOrEmpty(c, mode, failAt, k) ==
    IF mode = "ready" /\ ~Throws(mode, failAt, 1)
    THEN [thrown |-> FALSE, hit |-> {Parse(x) : x \in RedisGet(c, k)}]
    ELSE [thrown |-> FALSE, hit |-> {Array(<<>>)}]

\* the value getCache returns is null: the caller cannot tell it from the
\* null of a miss
IsNull(j) == j.type = "null"

\* getCache(key): value ? JSON.parse(value) : null. hit is what it returns
\* when that is not null.
GetCache(c, mode, failAt, k) ==
    IF mode = "none" THEN [thrown |-> FALSE, hit |-> {}]
    ELSE IF Throws(mode, failAt, 1) THEN [thrown |-> TRUE, hit |-> {}]
    ELSE [thrown |-> FALSE, hit |-> {j \in {Parse(x) : x \in RedisGet(c, k)} : ~IsNull(j)}]

Set(k, v, ttl, failAt) ==
    LET r == SetCache(cache, redis, failAt, GenerateKey(k), v, ttl, time)
    IN  /\ cache' = r.cache
        /\ ret' = Returned("set", k, {}, r.thrown, r.ok, {}, 0)
        /\ UNCHANGED <<tagsets, time, redis>>
        /\ UNCHANGED <<watchlist, content, now, response, rated, ryw, reqs, db0, episodes, tog>>

Get(k, failAt) ==
    LET r == GetCache(cache, redis, failAt, GenerateKey(k))
    IN  /\ ret' = Returned("get", k, {}, r.thrown, ~r.thrown, r.hit, 0)
        /\ UNCHANGED <<cache, tagsets, time, redis>>
        /\ UNCHANGED <<watchlist, content, now, response, rated, ryw, reqs, db0, episodes, tog>>

Delete(k, failAt) ==
    LET thrown == redis # "none" /\ Throws(redis, failAt, 1)
        ok == redis # "none" /\ ~thrown
    IN  /\ cache' = IF ok THEN Del(cache, {GenerateKey(k)}) ELSE cache
        /\ ret' = Returned("delete", k, {}, thrown, ok, {}, 0)
        /\ UNCHANGED <<tagsets, time, redis>>
        /\ UNCHANGED <<watchlist, content, now, response, rated, ryw, reqs, db0, episodes, tog>>

\* deletePattern(pattern): KEYS, then DEL of what it found
DeletePattern(p, failAt) ==
    LET keys == RedisKeys(cache, GenerateKey(p))
        thrown == /\ redis # "none"
                  /\ \/ Throws(redis, failAt, 1)
                     \/ keys # {} /\ Throws(redis, failAt, 2)
        ok == redis # "none" /\ ~thrown
    IN  /\ cache' = IF ok THEN Del(cache, keys) ELSE cache
        /\ ret' = Returned("deletePattern", p, {}, thrown, ok, {}, IF ok THEN Cardinality(keys) ELSE 0)
        /\ UNCHANGED <<tagsets, time, redis>>
        /\ UNCHANGED <<watchlist, content, now, response, rated, ryw, reqs, db0, episodes, tog>>

\* SADD key member: a set that was not there is made, with no expiry
SAdd(ts, k, member) ==
    IF k \in DOMAIN ts THEN [ts EXCEPT ![k].members = @ \cup {member}]
    ELSE (k :> [members |-> {member}, expires |-> -1]) @@ ts

\* EXPIRE key seconds, at time t
Expire(ts, k, ttl, t) == [ts EXCEPT ![k].expires = t + ttl]

RECURSIVE AddTags(_, _, _, _, _, _, _, _)
\* the loop of setWithTags from its i-th tag on: SADD is call 2i, EXPIRE 2i + 1
AddTags(ts, key, tags, i, mode, failAt, ttl, t) ==
    IF i > Len(tags) THEN [tagsets |-> ts, thrown |-> FALSE]
    ELSE IF Throws(mode, failAt, 2 * i) THEN [tagsets |-> ts, thrown |-> TRUE]
    ELSE LET ts1 == SAdd(ts, TagKey(tags[i]), key)
         IN  IF Throws(mode, failAt, 2 * i + 1) THEN [tagsets |-> ts1, thrown |-> TRUE]
             ELSE AddTags(Expire(ts1, TagKey(tags[i]), ttl + TagGrace, t),
                          key, tags, i + 1, mode, failAt, ttl, t)

Range(q) == {q[i] : i \in 1 .. Len(q)}

\* setWithTags(key, value, tags, ttl)
SetWithTags(k, v, tags, ttl, failAt) ==
    LET key == GenerateKey(k)
        r == SetCache(cache, redis, failAt, key, v, ttl, time)
        a == IF redis # "none" /\ Len(tags) > 0
             THEN AddTags(tagsets, key, tags, 1, redis, failAt, ttl, time)
             ELSE [tagsets |-> tagsets, thrown |-> FALSE]
    IN  /\ cache' = IF r.ok /\ ~a.thrown
                    THEN [r.cache EXCEPT ![key].tags = Range(tags)]
                    ELSE r.cache
        /\ tagsets' = a.tagsets
        /\ ret' = Returned("setWithTags", k, Range(tags), a.thrown, ~a.thrown, {}, 0)
        /\ UNCHANGED <<time, redis>>
        /\ UNCHANGED <<watchlist, content, now, response, rated, ryw, reqs, db0, episodes, tog>>

RECURSIVE Collect(_, _, _, _, _, _)
\* the loop of invalidateByTags from its i-th tag on: SMEMBERS is call 2i - 1,
\* the DEL of the tag set call 2i
Collect(ts, tags, i, keys, mode, failAt) ==
    IF i > Len(tags) THEN [tagsets |-> ts, keys |-> keys, thrown |-> FALSE]
    ELSE IF Throws(mode, failAt, 2 * i - 1) THEN [tagsets |-> ts, keys |-> keys, thrown |-> TRUE]
    ELSE LET k == TagKey(tags[i])
             found == keys \cup (IF k \in DOMAIN ts THEN ts[k].members ELSE {})
         IN  IF Throws(mode, failAt, 2 * i) THEN [tagsets |-> ts, keys |-> found, thrown |-> TRUE]
             ELSE Collect(Del(ts, {k}), tags, i + 1, found, mode, failAt)

\* invalidateByTags(tags)
InvalidateByTags(tags, failAt) ==
    LET a == IF redis = "none" THEN [tagsets |-> tagsets, keys |-> {}, thrown |-> FALSE]
             ELSE Collect(tagsets, tags, 1, {}, redis, failAt)
        thrown == a.thrown \/ (a.keys # {} /\ Throws(redis, failAt, 2 * Len(tags) + 1))
        ok == redis # "none" /\ ~thrown
    IN  /\ cache' = IF ok THEN Del(cache, a.keys) ELSE cache
        /\ tagsets' = a.tagsets
        /\ ret' = Returned("invalidateByTags", <<>>, Range(tags), thrown, ok, {},
                           IF ok THEN Cardinality(a.keys) ELSE 0)
        /\ UNCHANGED <<time, redis>>
        /\ UNCHANGED <<watchlist, content, now, response, rated, ryw, reqs, db0, episodes, tog>>

\* 300 s pass: what expires by then is gone
Tick ==
    /\ time < MaxTime
    /\ time' = time + 1
    /\ cache' = Unexpired(cache, time + 1)
    /\ tagsets' = Unexpired(tagsets, time + 1)
    /\ UNCHANGED <<redis, ret>>
    /\ UNCHANGED <<watchlist, content, now, response, rated, ryw, reqs, db0, episodes, tog>>

\* the service with a client that is ready and a store that answers
NextTags ==
    \/ \E k \in ServiceKeys, v \in ServiceValues, tags \in TagLists, ttl \in Ttls :
           SetWithTags(k, v, tags, ttl, 0)
    \/ \E tags \in TagLists : InvalidateByTags(tags, 0)
    \/ \E k \in ServiceKeys, v \in ServiceValues, ttl \in Ttls : Set(k, v, ttl, 0)
    \/ \E k \in ServiceKeys : Get(k, 0)
    \/ \E k \in ServiceKeys : Delete(k, 0)
    \/ \E p \in Patterns : DeletePattern(p, 0)
    \/ Tick

SpecTags == Init /\ [][NextTags]_vars

\* getOrSet(key, fetchFunction, ttl), with a fetchFunction that resolves to
\* fetched: the cached value when get returns one that is not null, else the
\* fetched one, stored unless it is null. count is the number of calls of
\* fetchFunction, hit the value returned.
GetOrSet(k, fetched, ttl) ==
    LET g == GetCache(cache, redis, 0, GenerateKey(k))
    IN  IF g.hit # {}
        THEN /\ ret' = Returned("getOrSet", k, {}, g.thrown, TRUE, g.hit, 0)
             /\ UNCHANGED <<cache, tagsets, time, redis>>
             /\ UNCHANGED <<watchlist, content, now, response, rated, ryw, reqs, db0, episodes, tog>>
        ELSE /\ cache' = IF IsNull(fetched) THEN cache
                         ELSE SetCache(cache, redis, 0, GenerateKey(k), fetched, ttl, time).cache
             /\ ret' = Returned("getOrSet", k, {}, g.thrown, TRUE, {fetched}, 1)
             /\ UNCHANGED <<tagsets, time, redis>>
             /\ UNCHANGED <<watchlist, content, now, response, rated, ryw, reqs, db0, episodes, tog>>

\* the values callers cache: the nil ones and an ordinary one
CachedValues == NilValues \cup ServiceValues

\* the service under callers that cache nil values too
NextNil ==
    \/ \E k \in ServiceKeys, v \in CachedValues, ttl \in Ttls : Set(k, v, ttl, 0)
    \/ \E k \in ServiceKeys : Get(k, 0)
    \/ \E k \in ServiceKeys, v \in CachedValues, ttl \in Ttls : GetOrSet(k, v, ttl)
    \/ Tick

SpecNil == Init /\ [][NextNil]_vars

\* --------------------------------------------------------- cache-aside reads
\* The handlers that read through config/redis.js: getCache, and on a miss
\* the store, then setCache. The client is what connectRedis left: ready,
\* closed (every call throws) or none.
ContinueTtl == 1

\* Math.round of a positive double
Round(a) == (2 * a[1] + a[2]) \div (2 * a[2])

\* the handlers' records carry no lastWatchedAt: the query may give them in
\* any order
Unstamped(wl) == [i \in DOMAIN wl |-> [lastWatchedAt |-> 0] @@ wl[i]]

\* formattedData: item.toObject() with progressText and timeLeft
Formatted(q) ==
    [i \in DOMAIN q |->
        [progressText |-> Round(q[i].percentageWatched),
         timeLeft |-> Max(0, q[i].totalDuration - q[i].currentPosition)] @@ q[i]]

ContinueKey(u, limit) == <<"continue_watching", u, ToString(limit)>>

\* what the store gives the handler on a miss
ContinueFromStore(u, limit) ==
    {Formatted(q) : q \in ContinueWatching(Unstamped(watchlist), u, limit)}

\* GET /api/watchlist/:userId/continue?limit=
GetContinueWatching(u, limit) ==
    LET key == ContinueKey(u, limit)
        g == GetCache(cache, redis, 0, key)
        h == Cached(g.hit)
    IN  /\ ret' = Returned("getCache", key, {}, g.thrown, ~g.thrown, h, 0)
        /\ IF h # {}
           THEN /\ \E v \in h : response' = Reply("continue", 200, u, "", v)
                /\ cache' = cache
           ELSE \E v \in ContinueFromStore(u, limit) :
                    /\ response' = Reply("continue", 200, u, "", v)
                    /\ cache' = SetCache(cache, redis, 0, key, Array(v), ContinueTtl, time).cache
        /\ reqs' = <<[userId |-> u, limit |-> limit]>>
        /\ tog' = NoToggles
        /\ UNCHANGED <<tagsets, time, redis>>
        /\ UNCHANGED <<watchlist, content, now, rated, ryw, db0, episodes>>

InitCache ==
    /\ watchlist = <<>>
    /\ content = [c \in Contents |-> [averageRating |-> Zero, totalRatings |-> 0]]
    /\ now = 0
    /\ response = Reply("none", 0, "", "", <<>>)
    /\ rated = [u \in Users |-> [c \in Contents |-> 0]]
    /\ ryw = NoRun
    /\ reqs = <<>>
    /\ db0 = <<>>
    /\ episodes = [e \in Episodes |-> [likes |-> 0]]
    /\ tog = NoToggles
    /\ cache = NoEntries
    /\ tagsets = NoEntries
    /\ time = 0
    /\ redis \in Modes
    /\ ret = NoReturn

\* the positions sent: inside the continue-watching window, and at the
\* completion threshold
CachePositions == {2, 4}
CacheLimits == {1, 2}

NextCache ==
    \/ \E u \in Viewers, e \in Shown : StartWatching(u, e)
    \/ \E u \in Viewers, e \in Shown, p \in CachePositions : UpdateWatchProgress(u, e, p)
    \/ \E u \in Viewers, e \in Shown, p \in CachePositions : UpdateWatchlistProgress(u, e, p)
    \/ \E u \in Viewers, e \in Shown, p \in CachePositions : MarkCompleted(u, e, p)
    \/ \E u \in Viewers, limit \in CacheLimits : GetContinueWatching(u, limit)
    \/ Tick

SpecCache == InitCache /\ [][NextCache]_vars

\* the service with any client and a store that may fail one call of a run
OutageTtls == {1}

NextOutage ==
    \/ \E k \in ServiceKeys, v \in ServiceValues, tags \in TagLists, ttl \in OutageTtls,
          failAt \in 0 .. MaxCalls : SetWithTags(k, v, tags, ttl, failAt)
    \/ \E tags \in TagLists, failAt \in 0 .. MaxCalls : InvalidateByTags(tags, failAt)
    \/ \E k \in ServiceKeys, v \in ServiceValues, ttl \in OutageTtls, failAt \in 0 .. 1 :
           Set(k, v, ttl, failAt)
    \/ \E k \in ServiceKeys, failAt \in 0 .. 1 : Get(k, failAt)
    \/ \E k \in ServiceKeys, failAt \in 0 .. 1 : Delete(k, failAt)
    \/ \E p \in Patterns, failAt \in 0 .. 2 : DeletePattern(p, failAt)

SpecOutage == InitCache /\ [][NextOutage]_vars

\* ------------------------------------------------------------------- the feed
\* FeedService.generateRandomFeed on the Content collection. A Title is listed
\* when it is published and in the random feed; its age is how long ago it
\* was published. The scores the pools sort on, and the random numbers of the
\* algorithm score and of the shuffle, are not kept: a pool is its matching
\* Titles in any order, and the combined list comes in any order.
Titles == {"t1", "t2", "t3"}
Ages == {"week", "month", "old"}
Genres == {"drama", "comedy"}
Sources == <<"personalized", "trending", "popular", "fresh">>
FeedLimits == {MaxLimit}
FeedOffsets == {0, 1}
FeedTtl == 3

Unlisted == [listed |-> FALSE, age |-> "old", genre |-> "comedy",
             averageRating |-> Zero, totalRatings |-> 0]
TitleDocs ==
    {[listed |-> TRUE, age |-> a, genre |-> g, averageRating |-> Zero, totalRatings |-> 0] :
        a \in Ages, g \in Genres} \cup {Unlisted}

\* the catalogues, one of each that differ in the names of their Titles only
TitleOrder == <<"t1", "t2", "t3">>
DocRank(d) ==
    IF ~d.listed THEN 0
    ELSE (IF d.age = "week" THEN 1 ELSE IF d.age = "month" THEN 3 ELSE 5)
         + (IF d.genre = "drama" THEN 0 ELSE 1)
Catalogues ==
    {cat \in [Titles -> TitleDocs] :
        \A i, j \in 1 .. Len(TitleOrder) :
            i < j => DocRank(cat[TitleOrder[i]]) <= DocRank(cat[TitleOrder[j]])}

\* user.preferences.preferredGenres of the users there are
PreferredGenres(u) == IF u = "u1" THEN {"drama"} ELSE {}

\* Math.ceil(limit * k / 10)
CeilTenths(limit, k) == (limit * k + 9) \div 10

\* the sequences of n different members of S
Arrangements(S, n) == {f \in [1 .. n -> S] : \A i, j \in 1 .. n : f[i] = f[j] => i = j}

\* Content.find(query).sort(...).limit(n).lean()
FindSortLimit(S, n) == Arrangements(S, IF Cardinality(S) < n THEN Cardinality(S) ELSE n)

BaseQuery(cat) == {t \in DOMAIN cat : cat[t].listed}

PersonalizedQuery(cat, genres) ==
    {t \in BaseQuery(cat) : genres # {} => cat[t].genre \in genres}
TrendingQuery(cat) == {t \in BaseQuery(cat) : cat[t].age = "week"}
FreshQuery(cat) == {t \in BaseQuery(cat) : cat[t].age \in {"week", "month"}}

AddContentSource(q, source) == [i \in DOMAIN q |-> [id |-> q[i], feedSource |-> source]]

KeepDuplicates(q) == q

RECURSIVE RemoveDuplicates(_)
\* the filter on a Set of the ids seen
RemoveDuplicates(q) ==
    IF q = <<>> THEN <<>>
    ELSE LET n == Len(q)
             front == RemoveDuplicates(SubSeq(q, 1, n - 1))
         IN  IF \E i \in 1 .. n - 1 : q[i].id = q[n].id THEN front ELSE Append(front, q[n])

\* _applyFeedAlgorithm then _shuffleArray: the list in some order
ShuffleArray(q) == {[i \in 1 .. Len(q) |-> q[f[i]]] : f \in Arrangements(1 .. Len(q), Len(q))}

\* a slice with no end: feedContent.slice(offset)
SliceFrom(q, offset, limit) == SubSeq(q, offset + 1, Len(q))

\* feedContent.slice(offset, offset + limit)
Slice(q, offset, limit) ==
    SubSeq(q, offset + 1, IF Len(q) < offset + limit THEN Len(q) ELSE offset + limit)

\* what the i-th pool gives the combined list when the pool query numbered
\* failed rejects (0: none does): a pool that rejected gives nothing
Settled(pool, i, failed) == IF failed = i THEN {<<>>} ELSE pool

\* the pages built from the pools that settled
Pages(cat, genres, limit, offset, failed) ==
    UNION {{Slice(x, offset, limit) :
              x \in ShuffleArray(RemoveDuplicates(
                        AddContentSource(p, Sources[1]) \o AddContentSource(t, Sources[2])
                        \o AddContentSource(q, Sources[3]) \o AddContentSource(f, Sources[4])))} :
           p \in Settled(FindSortLimit(PersonalizedQuery(cat, genres), CeilTenths(limit, 4)), 1, failed),
           t \in Settled(FindSortLimit(TrendingQuery(cat), CeilTenths(limit, 3)), 2, failed),
           q \in Settled(FindSortLimit(BaseQuery(cat), CeilTenths(limit, 2)), 3, failed),
           f \in Settled(FindSortLimit(FreshQuery(cat), CeilTenths(limit, 1)), 4, failed)}

\* the pages generateRandomFeed may give when every pool query answers
GenerateRandomFeed(cat, genres, limit, offset) == Pages(cat, genres, limit, offset, 0)

AllSettled(failed) == FALSE

\* await Promise.all([...]) of the four pool queries rejects when one does,
\* and generateRandomFeed rethrows
PromiseAll(failed) == failed # 0

\* Watchlist.distinct('contentId', { userId })
Watched(wl, u) == {wl[i].contentId : i \in {j \in DOMAIN wl : wl[j].userId = u}}

\* baseQuery._id = { $nin: watchedContentIds }
NotIn(cat, ids) == [t \in DOMAIN cat \ ids |-> cat[t]]

\* generateRandomFeed(options): the watched Titles are left out when the
\* caller gives a userId and excludeWatched
GenerateRandomFeedWith(cat, wl, u, excludeWatched, genres, limit, offset, failed) ==
    Pages(IF u # "" /\ excludeWatched THEN NotIn(cat, Watched(wl, u)) ELSE cat,
          genres, limit, offset, failed)

\* `feed:${userId || 'anonymous'}:${limit}:${offset}:${genre || 'all'}:${language || 'all'}`
FeedKey(u, limit, offset, genre) ==
    <<"feed", IF u = "" THEN "anonymous" ELSE u, ToString(limit), ToString(offset),
      IF genre = "" THEN "all" ELSE genre, "all">>

\* userId ? 900 : 1800
CacheTime(u) == IF u # "" THEN FeedTtl ELSE 2 * FeedTtl

\* the preferences of the user, if any, then the genre of the query over them
UserPreferences(u, genre) == IF genre # "" THEN {genre} ELSE PreferredGenres(u)

\* GET /api/feed/random?userId=&limit=&offset=&genre=: u "" is no userId,
\* genre "" no genre. The handler reads no other parameter of the query:
\* excludeWatched is in the call and not in what the handler does.
\* what becomes of the content_view event: it is saved, it cannot be built
\* (the try block throws), it fails the validation of the Analytics schema,
\* or the store rejects the create
Sinks == {"saved", "notBuilt", "invalid", "saveFails"}

AwaitedCreate(sink) == sink \in {"invalid", "saveFails"}

\* setImmediate(async () => { try { await Analytics.create(event) } catch
\* ... }): the create runs after trackEvent returned, inside its own try
DeferredCreate(sink) == FALSE

\* analyticsService.trackEvent(eventData): the eventId, "" for null
TrackEvent(u, sink) ==
    IF sink = "notBuilt" \/ u = ""
    THEN [eventId |-> "", raised |-> FALSE]
    ELSE [eventId |-> u, raised |-> DeferredCreate(sink)]

\* the response after the event of the page is tracked, for a userId
Tracked(u, sink, page) ==
    IF u # "" /\ TrackEvent(u, sink).raised
    THEN Reply("feed", 500, u, "", <<>>)
    ELSE Reply("feed", 200, u, "", page)

\* failed is the pool query that rejects on a miss (0: none); the error
\* handler answers a rejection with 500.
RandomFeed(u, limit, offset, genre, excludeWatched, failed, sink) ==
    LET key == FeedKey(u, limit, offset, genre)
        g == GetCache(cache, redis, 0, key)
        h == Cached(g.hit)
    IN  /\ ret' = Returned("getCache", key, {}, g.thrown, ~g.thrown, h, 0)
        /\ IF h # {}
           THEN /\ \E v \in h : response' = Tracked(u, sink, v)
                /\ cache' = cache
           ELSE IF PromiseAll(failed)
           THEN /\ response' = Reply("feed", 500, u, "", <<>>)
                /\ cache' = cache
           ELSE \E v \in GenerateRandomFeedWith(content, watchlist, u, FALSE,
                                                UserPreferences(u, genre), limit, offset, failed) :
                    /\ response' = Tracked(u, sink, v)
                    /\ cache' = SetCache(cache, redis, 0, key, Array(v), CacheTime(u), time).cache
        /\ reqs' = <<[userId |-> u, limit |-> limit, offset |-> offset, genre |-> genre,
                      excludeWatched |-> excludeWatched, failed |-> failed, sink |-> sink]>>
        /\ tog' = NoToggles
        /\ UNCHANGED <<tagsets, time, redis>>
        /\ UNCHANGED <<watchlist, content, now, rated, ryw, db0, episodes>>

\* the call with userId, limit and offset only
GetRandomFeed(u, limit, offset) == RandomFeed(u, limit, offset, "", FALSE, 0, "saved")

InitFeed ==
    /\ watchlist = <<WatchedTo("u1", "e1", 2, FALSE, 1)>>
    /\ content \in Catalogues
    /\ now = 1
    /\ response = Reply("none", 0, "", "", <<>>)
    /\ rated = [u \in Users |-> [c \in Contents |-> 0]]
    /\ ryw = NoRun
    /\ reqs = <<>>
    /\ db0 = <<>>
    /\ episodes = [e \in Episodes |-> [likes |-> 0]]
    /\ tog = NoToggles
    /\ cache = NoEntries
    /\ tagsets = NoEntries
    /\ time = 0
    /\ redis \in Modes
    /\ ret = NoReturn

NextFeed ==
    \/ \E u \in Viewers, limit \in FeedLimits, offset \in FeedOffsets : GetRandomFeed(u, limit, offset)
    \/ \E u \in Viewers : GetContinueWatching(u, MaxLimit)

SpecFeed == InitFeed /\ [][NextFeed]_vars

\* ----------------------------------------------------- the feed of a watcher
\* Three listed Titles of the week, two of them dramas, and WatchRecords of u1
\* on some of them and of u2 on the first; feedService.generateRandomFeed is
\* called by the handler and, with every option, by itself. There is no
\* cache client: every page is generated for the call it answers.
WatcherCatalogues ==
    {cat \in Catalogues : \A t \in Titles : cat[t].listed /\ cat[t].age = "week"
                                             /\ (t # "t3" => cat[t].genre = "drama")}

OnTitles(u, T) ==
    LET S == {i \in 1 .. Len(TitleOrder) : TitleOrder[i] \in T}
        RECURSIVE Recs(_)
        Recs(n) == IF n = 0 THEN <<>>
                   ELSE IF n \in S
                        THEN Append(Recs(n - 1), NewRecord(u, TitleOrder[n], "e1", 0, Zero))
                        ELSE Recs(n - 1)
    IN  Recs(Len(TitleOrder))

InitWatcher ==
    /\ \E T \in SUBSET Titles : watchlist = OnTitles("u1", T) \o OnTitles("u2", {"t1"})
    /\ content \in WatcherCatalogues
    /\ now = 0
    /\ response = Reply("none", 0, "", "", <<>>)
    /\ rated = [u \in Users |-> [c \in Contents |-> 0]]
    /\ ryw = NoRun
    /\ reqs = <<>>
    /\ db0 = <<>>
    /\ episodes = [e \in Episodes |-> [likes |-> 0]]
    /\ tog = NoToggles
    /\ cache = NoEntries
    /\ tagsets = NoEntries
    /\ time = 0
    /\ redis = "none"
    /\ ret = NoReturn

\* feedService.generateRandomFeed({ userPreferences, limit, offset, userId,
\* excludeWatched }), called as such
GenerateFeed(u, limit, offset, excludeWatched) ==
    /\ \E v \in GenerateRandomFeedWith(content, watchlist, u, excludeWatched,
                                       PreferredGenres(u), limit, offset, 0) :
           response' = Reply("generate", 200, u, "", v)
    /\ reqs' = <<[userId |-> u, limit |-> limit, offset |-> offset, genre |-> "",
                  excludeWatched |-> excludeWatched, failed |-> 0, sink |-> "saved"]>>
    /\ tog' = NoToggles
    /\ UNCHANGED <<cacheVars, watchlist, content, now, rated, ryw, db0, episodes>>

WatcherLimits == {2}

NextWatcher ==
    \/ \E u \in Viewers, limit \in WatcherLimits, x \in BOOLEAN : RandomFeed(u, limit, 0, "", x, 0, "saved")
    \/ \E u \in Viewers, limit \in WatcherLimits, x \in BOOLEAN : GenerateFeed(u, limit, 0, x)

SpecWatcher == InitWatcher /\ [][NextWatcher]_vars

\* ------------------------------------------------- a pool query that fails
\* The handler with a cache that is ready, on a catalogue of three listed
\* Titles: on a miss one of the four pool queries may reject.
PoolQueries == 1 .. Len(Sources)

InitPools ==
    /\ watchlist = <<>>
    /\ content \in WatcherCatalogues
    /\ now = 0
    /\ response = Reply("none", 0, "", "", <<>>)
    /\ rated = [u \in Users |-> [c \in Contents |-> 0]]
    /\ ryw = NoRun
    /\ reqs = <<>>
    /\ db0 = <<>>
    /\ episodes = [e \in Episodes |-> [likes |-> 0]]
    /\ tog = NoToggles
    /\ CacheAtStart

NextPools ==
    \E u \in Viewers, limit \in WatcherLimits, offset \in FeedOffsets, failed \in {0} \cup PoolQueries :
        RandomFeed(u, limit, offset, "", FALSE, failed, "saved")

SpecPools == InitPools /\ [][NextPools]_vars

\* ------------------------------------------------------------ the prefetch
\* generateRandomFeed with enablePrefetch: for each of the first cards of the
\* page, the episodes that come next in its Title with the progress of the
\* user on them. fails is the set of the cards (by place in the page) for
\* which one of the two queries rejects.
PrefetchCount == 7

\* the published episodes after the first one, per Title, in order
Upcoming(t) == IF t = "t1" THEN <<"e1", "e2">> ELSE IF t = "t2" THEN <<"e2">> ELSE <<>>

\* _getUserProgressForEpisodes, and the default of a missing entry
ProgressOn(wl, u, e) ==
    LET i == FindOne(wl, u, e)
    IN  IF u # "" /\ i # 0
        THEN [currentPosition |-> wl[i].currentPosition,
              percentageWatched |-> wl[i].percentageWatched,
              isCompleted |-> wl[i].isCompleted]
        ELSE [currentPosition |-> 0, percentageWatched |-> Zero, isCompleted |-> FALSE]

\* the block of a card whose queries answered
PrefetchBlock(wl, u, t) ==
    [contentId |-> t,
     nextEpisodes |-> [k \in 1 .. Len(Upcoming(t)) |->
                          [episodeId |-> Upcoming(t)[k],
                           watchProgress |-> ProgressOn(wl, u, Upcoming(t)[k])]],
     totalEpisodesAvailable |-> Len(Upcoming(t)),
     prefetchStrategy |-> "sequential"]

\* the block the inner catch pushes
EmptyBlock(t) ==
    [contentId |-> t, nextEpisodes |-> <<>>, totalEpisodesAvailable |-> 0,
     prefetchStrategy |-> "none"]

PushNothing(t) == <<>>

\* catch (episodeError) { prefetchData.push({ ... }) }
PushEmpty(t) == <<EmptyBlock(t)>>

RECURSIVE PrefetchNextEpisodes(_, _, _, _, _)
\* the loop of _prefetchNextEpisodes over the first n cards
PrefetchNextEpisodes(page, wl, u, fails, n) ==
    IF n = 0 THEN <<>>
    ELSE PrefetchNextEpisodes(page, wl, u, fails, n - 1)
         \o (IF n \in fails THEN PushEmpty(page[n].id)
             ELSE <<PrefetchBlock(wl, u, page[n].id)>>)

\* feedWithEpisodes.forEach: the card at index gets prefetchData[index], if any
WithPrefetch(page, prefetchData) ==
    [i \in DOMAIN page |->
        [prefetchData |-> IF i <= Len(prefetchData) THEN <<prefetchData[i]>> ELSE <<>>] @@ page[i]]

GenerateFeedPrefetch(u, limit, offset, fails) ==
    /\ \E v \in GenerateRandomFeedWith(content, watchlist, u, FALSE, PreferredGenres(u),
                                       limit, offset, 0) :
           LET n == IF Len(v) < PrefetchCount THEN Len(v) ELSE PrefetchCount
           IN  response' = Reply("prefetched", 200, u, "",
                                 WithPrefetch(v, PrefetchNextEpisodes(v, watchlist, u, fails, n)))
    /\ reqs' = <<[userId |-> u, limit |-> limit, offset |-> offset, fails |-> fails]>>
    /\ tog' = NoToggles
    /\ UNCHANGED <<cacheVars, watchlist, content, now, rated, ryw, db0, episodes>>

InitPrefetch ==
    /\ watchlist = <<PreSave(UpdateProgressDoc(NewRecord("u1", "t1", "e2", 0, Zero), 2), 1)>>
    /\ content \in WatcherCatalogues
    /\ now = 1
    /\ response = Reply("none", 0, "", "", <<>>)
    /\ rated = [u \in Users |-> [c \in Contents |-> 0]]
    /\ ryw = NoRun
    /\ reqs = <<>>
    /\ db0 = <<>>
    /\ episodes = [e \in Episodes |-> [likes |-> 0]]
    /\ tog = NoToggles
    /\ CacheAtStart

NextPrefetch ==
    \E u \in Viewers, limit \in FeedLimits, fails \in SUBSET (1 .. MaxLimit) :
        GenerateFeedPrefetch(u, limit, 0, fails)

SpecPrefetch == InitPrefetch /\ [][NextPrefetch]_vars

\* --------------------------------------------------- the analytics sink
\* The handler with every outcome of the content_view event, on a miss with
\* the pools answering or the trending query rejecting, or on a hit.
NextSink ==
    \E u \in Viewers, limit \in WatcherLimits, failed \in {0, 2}, sink \in Sinks :
        RandomFeed(u, limit, 0, "", FALSE, failed, sink)

SpecSink == InitPools /\ [][NextSink]_vars

\* ------------------------------------------------ the inputs of a request
\* The handler under requests that differ in userId (none, u1, or the text
\* anonymous), in genre (none, or the text all) and in excludeWatched.
KeyUsers == {"", "u1", "anonymous"}
KeyGenres == {"", "all"}
KeyLimits == {1}

NextKeys ==
    \E u \in KeyUsers, limit \in KeyLimits, genre \in KeyGenres, x \in BOOLEAN :
        RandomFeed(u, limit, 0, genre, x, 0, "saved")

SpecKeys == InitPools /\ [][NextKeys]_vars

\* ------------------------------------------------ the episodes of the cards
\* The Episode collection of the feed's Titles: each document with its Title,
\* its season and number and its status.
EpisodeDoc(t, season, number, status) ==
    [likes |-> 0, contentId |-> t, seasonNumber |-> season, episodeNumber |-> number,
     status |-> status]

Statuses == {"published", "draft"}

\* $match { contentId, status: 'published' }
PublishedOf(eps, t) == {e \in DOMAIN eps : eps[e].contentId = t /\ eps[e].status = "published"}

\* $sort { seasonNumber: 1, episodeNumber: 1 }: does a come before b?
EpisodeBefore(a, b) ==
    \/ a.seasonNumber < b.seasonNumber
    \/ a.seasonNumber = b.seasonNumber /\ a.episodeNumber < b.episodeNumber

\* $group { firstEpisode: { $first: '$$ROOT' } }: the first episodes of Title
\* t, none when it has no published episode
FirstEpisodes(eps, t) ==
    {e \in PublishedOf(eps, t) : \A x \in PublishedOf(eps, t) : ~EpisodeBefore(eps[x], eps[e])}

\* _attachFirstEpisodes(content): every item of content with firstEpisode, the
\* episode of the map or null (<<>>)
AttachFirstEpisodes(page, eps) ==
    LET RECURSIVE Attached(_)
        Attached(n) ==
            IF n = 0 THEN {<<>>}
            ELSE IF FirstEpisodes(eps, page[n].id) = {}
                 THEN {Append(q, [firstEpisode |-> <<>>] @@ page[n]) : q \in Attached(n - 1)}
                 ELSE {Append(q, [firstEpisode |-> <<e>>] @@ page[n]) :
                           q \in Attached(n - 1), e \in FirstEpisodes(eps, page[n].id)}
    IN  Attached(Len(page))

\* t1 has two episodes and t2 one, each published or not; t3 has none
InitCards ==
    /\ watchlist = <<>>
    /\ content \in WatcherCatalogues
    /\ now = 0
    /\ response = Reply("none", 0, "", "", <<>>)
    /\ rated = [u \in Users |-> [c \in Contents |-> 0]]
    /\ ryw = NoRun
    /\ reqs = <<>>
    /\ db0 = <<>>
    /\ \E a, b, c \in Statuses :
           episodes = [e \in {"e1", "e2", "e3"} |->
                          IF e = "e1" THEN EpisodeDoc("t1", 1, 1, a)
                          ELSE IF e = "e2" THEN EpisodeDoc("t1", 1, 2, b)
                          ELSE EpisodeDoc("t2", 1, 1, c)]
    /\ tog = NoToggles
    /\ CacheAtStart

\* feedService.generateRandomFeed, with the first episodes attached
GenerateFeedCards(u, limit, offset) ==
    /\ \E v \in GenerateRandomFeedWith(content, watchlist, u, FALSE, PreferredGenres(u),
                                       limit, offset, 0) :
           \E w \in AttachFirstEpisodes(v, episodes) :
               response' = Reply("cards", 200, u, "", w)
    /\ reqs' = <<[userId |-> u, limit |-> limit, offset |-> offset]>>
    /\ tog' = NoToggles
    /\ UNCHANGED <<cacheVars, watchlist, content, now, rated, ryw, db0, episodes>>

NextCards ==
    \E u \in Viewers, limit \in WatcherLimits, offset \in FeedOffsets :
        GenerateFeedCards(u, limit, offset)

SpecCards == InitCards /\ [][NextCards]_vars

\* ------------------------------------------------ the episodes that come next
\* _prefetchNextEpisodes on a page of one card, over the seven episodes of its
\* Title: in one season, in two seasons numbered on (1..3, 4..7), or in two
\* seasons each numbered from 1.
NextCount == 5
SeasonEpisodes == <<"e1", "e2", "e3", "e4", "e5", "e6", "e7">>
Numberings == {"one", "running", "perSeason"}

Numbered(k, numbering, status) ==
    EpisodeDoc("t1",
               IF numbering = "one" \/ k <= 3 THEN 1 ELSE 2,
               IF numbering = "perSeason" /\ k > 3 THEN k - 3 ELSE k,
               status)

RECURSIVE SortEpisodes(_, _)
\* .sort({ seasonNumber: 1, episodeNumber: 1 }) of the documents of S
SortEpisodes(eps, S) ==
    IF S = {} THEN <<>>
    ELSE LET e == CHOOSE x \in S : \A y \in S : ~EpisodeBefore(eps[y], eps[x])
         IN  <<e>> \o SortEpisodes(eps, S \ {e})

\* _getNextEpisodes(contentId, currentEpisodeNumber, limit)
GetNextEpisodes(eps, t, currentEpisodeNumber, limit) ==
    Limit(SortEpisodes(eps, {e \in PublishedOf(eps, t) :
                                 eps[e].episodeNumber > currentEpisodeNumber}), limit)

\* contentItem.firstEpisode?.episodeNumber || 1
CurrentEpisodeNumber(eps, card) ==
    IF card.firstEpisode = <<>> \/ eps[card.firstEpisode[1]].episodeNumber = 0 THEN 1
    ELSE eps[card.firstEpisode[1]].episodeNumber

InitSeasons ==
    /\ watchlist = <<>>
    /\ content \in WatcherCatalogues
    /\ now = 0
    /\ response = Reply("none", 0, "", "", <<>>)
    /\ rated = [u \in Users |-> [c \in Contents |-> 0]]
    /\ ryw = NoRun
    /\ reqs = <<>>
    /\ db0 = <<>>
    /\ \E numbering \in Numberings, st \in [DOMAIN SeasonEpisodes -> Statuses] :
           episodes = [e \in {SeasonEpisodes[k] : k \in DOMAIN SeasonEpisodes} |->
                          LET k == CHOOSE n \in DOMAIN SeasonEpisodes : SeasonEpisodes[n] = e
                          IN  Numbered(k, numbering, st[k])]
    /\ tog = NoToggles
    /\ CacheAtStart

\* the card of Title t with its first episode, then its prefetch block
PrefetchCard(t, source) ==
    /\ \E page \in AttachFirstEpisodes(AddContentSource(<<t>>, source), episodes) :
           response' = Reply("next", 200, "", "",
               <<[contentId |-> t, firstEpisode |-> page[1].firstEpisode,
                  nextEpisodes |-> GetNextEpisodes(episodes, t,
                                       CurrentEpisodeNumber(episodes, page[1]), NextCount)]>>)
    /\ reqs' = <<[contentId |-> t, source |-> source]>>
    /\ tog' = NoToggles
    /\ UNCHANGED <<cacheVars, watchlist, content, now, rated, ryw, db0, episodes>>

NextSeasons == \E source \in {"trending", "popular"} : PrefetchCard("t1", source)

SpecSeasons == InitSeasons /\ [][NextSeasons]_vars

\* ------------------------------------------------ the URLs of a prefetch block
\* An upcoming episode with its quality variants in stored order; the block
\* entry gets prefetchUrl (quality low), then streamUrl (quality medium), both
\* computed on the one document the query returned.
Resolutions == <<"480p", "720p", "1080p", "4k">>

\* resolutionOrder = { '480p': 1, '720p': 2, '1080p': 3, '4k': 4 }
ResolutionOrder(r) == CHOOSE k \in DOMAIN Resolutions : Resolutions[k] = r

QualityOption(r) == [resolution |-> r, url |-> <<"url", r>>]
VideoUrl == <<"url", "video">>

\* the variants an episode may be stored with: some of the resolutions, in any order
StoredVariants ==
    UNION {Arrangements({QualityOption(Resolutions[k]) : k \in DOMAIN Resolutions}, n) :
               n \in 0 .. Len(Resolutions)}

\* qualityMapping = { low: '480p', medium: '720p', high: '1080p' }
QualityMapping(quality) ==
    IF quality = "medium" THEN "720p" ELSE IF quality = "high" THEN "1080p" ELSE "480p"

RECURSIVE SortByResolution(_)
\* episode.qualityOptions.sort((a, b) => resolutionOrder[a.resolution] -
\* resolutionOrder[b.resolution]): stable, and in place
SortByResolution(q) ==
    IF q = <<>> THEN <<>>
    ELSE LET n == Len(q)
             front == SortByResolution(SubSeq(q, 1, n - 1))
             before == SelectSeq(front, LAMBDA x :
                           ResolutionOrder(x.resolution) <= ResolutionOrder(q[n].resolution))
             after == SelectSeq(front, LAMBDA x :
                          ResolutionOrder(x.resolution) > ResolutionOrder(q[n].resolution))
         IN  before \o <<q[n]>> \o after

\* _getPrefetchUrl(episode, quality): the URL, and the qualityOptions of the
\* document after the call
GetPrefetchUrl(options, quality) ==
    LET found == SelectSeq(options, LAMBDA x : x.resolution = QualityMapping(quality))
    IN  IF options = <<>> THEN [url |-> VideoUrl, options |-> options]
        ELSE IF found # <<>> THEN [url |-> found[1].url, options |-> options]
        ELSE [url |-> SortByResolution(options)[1].url, options |-> SortByResolution(options)]

InitVariants ==
    /\ watchlist = <<>>
    /\ content \in WatcherCatalogues
    /\ now = 0
    /\ response = Reply("none", 0, "", "", <<>>)
    /\ rated = [u \in Users |-> [c \in Contents |-> 0]]
    /\ ryw = NoRun
    /\ reqs = <<>>
    /\ db0 = <<>>
    /\ \E q \in StoredVariants :
           episodes = [e \in {"e2"} |-> [qualityOptions |-> q] @@ EpisodeDoc("t1", 1, 2, "published")]
    /\ tog = NoToggles
    /\ CacheAtStart

\* nextEpisodes.map(episode => ({ ..., prefetchUrl, streamUrl, ... })) for
\* the upcoming episode e; qualityOptions is the array of the document the
\* block was built from, as the map leaves it
PrefetchUrls(e, priority) ==
    LET low == GetPrefetchUrl(episodes[e].qualityOptions, "low")
        medium == GetPrefetchUrl(low.options, "medium")
    IN  /\ response' = Reply("urls", 200, "", e,
                             <<[episodeId |-> e, prefetchUrl |-> low.url, streamUrl |-> medium.url,
                                prefetchPriority |-> priority,
                                qualityOptions |-> medium.options]>>)
        /\ reqs' = <<[episodeId |-> e]>>
        /\ tog' = NoToggles
        /\ UNCHANGED <<cacheVars, watchlist, content, now, rated, ryw, db0, episodes>>

NextVariants == \E e \in DOMAIN episodes, priority \in 1 .. 2 : PrefetchUrls(e, priority)

SpecVariants == InitVariants /\ [][NextVariants]_vars

\* ------------------------------------------------------- the score of a card
\* Scores are kept in tenths, so that 0.3, 0.2 and 0.1 are whole numbers.
Tenths == 10

FeedItems ==
    {[analytics |-> [popularityScore |-> p, trendingScore |-> t, completionRate |-> c],
      feedSettings |-> [feedPriority |-> fp, feedWeight |-> fw],
      genre |-> <<"drama">>, language |-> <<"hi">>, publishedAt |-> 0] :
        p \in {0, 10}, t \in {0, 5}, c \in {0, 50}, fp \in {1, 2}, fw \in {0, 1, 2}}

\* Math.random() * 10, in tenths
Randoms == {0, 37, 99}

Days == {3, 7, 30}

\* x || d for a number x
OrElse(x, d) == IF x = 0 THEN d ELSE x

\* array.some(x => other.includes(x))
SomeIncluded(array, other) ==
    \E i \in DOMAIN array : \E j \in DOMAIN other : array[i] = other[j]

\* the score of one item in tenths, with random the value drawn for it;
\* days is daysSincePublished
AlgorithmScore(item, userPreferences, days, random) ==
    OrElse(item.analytics.popularityScore, 0) * 3
    + OrElse(item.analytics.trendingScore, 0) * 2
    + OrElse(item.feedSettings.feedPriority, 1) * 10 * Tenths
    + OrElse(item.feedSettings.feedWeight, 1) * 5 * Tenths
    + (IF userPreferences.genres # <<>> /\ SomeIncluded(item.genre, userPreferences.genres)
       THEN 20 * Tenths ELSE 0)
    + (IF userPreferences.languages # <<>>
          /\ SomeIncluded(item.language, userPreferences.languages)
       THEN 15 * Tenths ELSE 0)
    + (IF days < 7 THEN 10 * Tenths ELSE IF days < 30 THEN 5 * Tenths ELSE 0)
    + OrElse(item.analytics.completionRate, 0) * 1
    + random

RECURSIVE SortByScore(_)
\* .sort((a, b) => b._algorithmScore - a._algorithmScore): stable
SortByScore(q) ==
    IF q = <<>> THEN <<>>
    ELSE LET n == Len(q)
             front == SortByScore(SubSeq(q, 1, n - 1))
             before == SelectSeq(front, LAMBDA x : x._algorithmScore >= q[n]._algorithmScore)
             after == SelectSeq(front, LAMBDA x : x._algorithmScore < q[n]._algorithmScore)
         IN  before \o <<q[n]>> \o after

InitScore ==
    /\ watchlist = <<>>
    /\ \E first \in FeedItems, rest \in {<<>>, <<CHOOSE x \in FeedItems : TRUE>>} :
           content = <<first>> \o rest
    /\ now \in Days
    /\ response = Reply("none", 0, "", "", <<>>)
    /\ rated = [u \in Users |-> [c \in Contents |-> 0]]
    /\ ryw = NoRun
    /\ reqs = <<>>
    /\ db0 = <<>>
    /\ episodes = [e \in Episodes |-> [likes |-> 0]]
    /\ tog = NoToggles
    /\ CacheAtStart

\* _applyFeedAlgorithm(content, userPreferences); random[i] is the value
\* Math.random() * 10 takes for the i-th item, and a card keeps the index of
\* its item as id
ApplyFeedAlgorithm(userPreferences, random) ==
    /\ response' = Reply("score", 200, "", "",
                         SortByScore([i \in DOMAIN content |->
                             [id |-> i,
                              _algorithmScore |->
                                  AlgorithmScore(content[i], userPreferences,
                                                 now - content[i].publishedAt, random[i])]]))
    /\ reqs' = <<[userPreferences |-> userPreferences, random |-> random]>>
    /\ tog' = NoToggles
    /\ UNCHANGED <<cacheVars, watchlist, content, now, rated, ryw, db0, episodes>>

NextScore ==
    \E genres \in {<<>>, <<"drama">>, <<"comedy">>}, languages \in {<<>>, <<"hi">>},
       random \in [DOMAIN content -> Randoms] :
        ApplyFeedAlgorithm([genres |-> genres, languages |-> languages], random)

SpecScore == InitScore /\ [][NextScore]_vars

\* ------------------------------------------------------- the admin's writes
\* A catalogue whose Titles carry their status, their feed flag and their
\* episodes; listed is what the feed queries test, status published and
\* feedSettings.isInRandomFeed.
AdminDoc(status, inFeed, episodeIds) ==
    [listed |-> status = "published" /\ inFeed, age |-> "week", genre |-> "drama",
     averageRating |-> Zero, totalRatings |-> 0,
     status |-> status, isInRandomFeed |-> inFeed, episodeIds |-> episodeIds]

Relisted(d) == [d EXCEPT !.listed = d.status = "published" /\ d.isInRandomFeed]

\* history: the feed, trending and popular entries that are left are from
\* before a write that changed which Titles the feed queries find
FeedOutdated(c, before, after) ==
    IF BaseQuery(before) = BaseQuery(after) THEN c
    ELSE [k \in DOMAIN c |-> IF k[1] \in {"feed", "trending", "popular"}
                             THEN [c[k] EXCEPT !.outdated = TRUE] ELSE c[k]]

RECURSIVE ClearCaches(_, _, _)
\* await deleteCache('feed:*'); await deleteCache('trending:*'); ...: one
\* deleteCache per name, each with the text `${name}:*` as its key
ClearCaches(c, mode, names) ==
    IF names = <<>> THEN c
    ELSE ClearCaches(DeleteCache(c, mode, <<Head(names), "*">>), mode, Tail(names))

AdminReply(op, code, t) ==
    /\ response' = Reply(op, code, "", "", <<>>)
    /\ reqs' = <<[contentId |-> t]>>
    /\ tog' = NoToggles

\* PUT /api/admin/content/:contentId/feed-settings
UpdateFeedSettings(t, isInRandomFeed) ==
    IF t \notin DOMAIN content
    THEN /\ AdminReply("feedSettings", 404, t)
         /\ UNCHANGED <<cacheVars, watchlist, content, now, rated, ryw, db0, episodes>>
    ELSE LET after == [content EXCEPT ![t] = Relisted([@ EXCEPT !.isInRandomFeed = isInRandomFeed])]
         IN  /\ content' = after
             /\ cache' = FeedOutdated(ClearCaches(cache, redis, <<"feed", "trending">>),
                                      content, after)
             /\ AdminReply("feedSettings", 200, t)
             /\ UNCHANGED <<cacheRest, watchlist, now, rated, ryw, db0, episodes>>

\* Episode.updateMany(filter, { status: 'published', publishedAt })
PublishEpisodes(eps, E) ==
    [e \in DOMAIN eps |-> IF e \in E THEN [eps[e] EXCEPT !.status = "published"] ELSE eps[e]]

\* POST /api/admin/content/:contentId/publish
PublishContent(t) ==
    IF t \notin DOMAIN content
    THEN /\ AdminReply("publish", 404, t)
         /\ UNCHANGED <<cacheVars, watchlist, content, now, rated, ryw, db0, episodes>>
    ELSE IF content[t].episodeIds = {}
    THEN /\ AdminReply("publish", 400, t)
         /\ UNCHANGED <<cacheVars, watchlist, content, now, rated, ryw, db0, episodes>>
    ELSE LET after == [content EXCEPT ![t] = Relisted([@ EXCEPT !.status = "published",
                                                                !.age = "week"])]
         IN  /\ content' = after
             /\ episodes' = PublishEpisodes(episodes, content[t].episodeIds)
             /\ cache' = FeedOutdated(ClearCaches(cache, redis, <<"feed", "trending", "popular">>),
                                      content, after)
             /\ AdminReply("publish", 200, t)
             /\ UNCHANGED <<cacheRest, watchlist, now, rated, ryw, db0>>

\* PUT /api/admin/content/bulk-update, with updates { status }
BulkUpdateContent(contentIds, status) ==
    IF contentIds = {}
    THEN /\ AdminReply("bulk", 400, "")
         /\ UNCHANGED <<cacheVars, watchlist, content, now, rated, ryw, db0, episodes>>
    ELSE LET after == [t \in DOMAIN content |->
                          IF t \in contentIds
                          THEN Relisted([content[t] EXCEPT !.status = status])
                          ELSE content[t]]
         IN  /\ content' = after
             /\ episodes' = IF status = "published"
                             THEN PublishEpisodes(episodes,
                                      {e \in DOMAIN episodes : episodes[e].contentId \in contentIds})
                             ELSE episodes
             /\ cache' = FeedOutdated(ClearCaches(cache, redis, <<"feed", "trending", "popular">>),
                                      content, after)
             /\ AdminReply("bulk", 200, "")
             /\ UNCHANGED <<cacheRest, watchlist, now, rated, ryw, db0>>

InitAdmin ==
    /\ watchlist = <<>>
    /\ \E s \in Statuses, inFeed \in BOOLEAN :
           content = [t \in Titles |->
                         IF t = "t1" THEN AdminDoc("published", TRUE, {"e1"})
                         ELSE IF t = "t2" THEN AdminDoc(s, inFeed, {"e2"})
                         ELSE AdminDoc("draft", TRUE, {})]
    /\ now = 0
    /\ response = Reply("none", 0, "", "", <<>>)
    /\ rated = [u \in Users |-> [c \in Contents |-> 0]]
    /\ ryw = NoRun
    /\ reqs = <<>>
    /\ db0 = <<>>
    /\ episodes = [e \in Episodes |->
                       IF e = "e1" THEN EpisodeDoc("t1", 1, 1, "published")
                       ELSE EpisodeDoc("t2", 1, 1, "draft")]
    /\ tog = NoToggles
    /\ CacheAtStart

NextAdmin ==
    \/ \E u \in {""} : GetRandomFeed(u, 1, 0)
    \/ \E t \in Titles \cup {"t0"}, isInRandomFeed \in BOOLEAN :
           UpdateFeedSettings(t, isInRandomFeed)
    \/ \E t \in Titles \cup {"t0"} : PublishContent(t)
    \/ \E contentIds \in {{}, {"t2"}}, status \in {"published", "archived"} :
           BulkUpdateContent(contentIds, status)

SpecAdmin == InitAdmin /\ [][NextAdmin]_vars

\* ------------------------------------------------- a catalogue of many Titles
\* Five listed Titles, more than the pools of a small page can hold: two of
\* the week, one of the month, two older. The handler is asked for pages
\* that start inside and past the merged list.
WideTitles == {"t1", "t2", "t3", "t4", "t5"}

WideCatalogue ==
    [t \in WideTitles |->
        [listed |-> TRUE,
         age |-> IF t \in {"t1", "t2"} THEN "week" ELSE IF t = "t3" THEN "month" ELSE "old",
         genre |-> "drama", averageRating |-> Zero, totalRatings |-> 0]]

\* limit and offset of the requests
PageRequests == {<<1, 2>>, <<1, 4>>, <<2, 3>>}

InitWide ==
    /\ watchlist = <<>>
    /\ content = WideCatalogue
    /\ now = 0
    /\ response = Reply("none", 0, "", "", <<>>)
    /\ rated = [u \in Users |-> [c \in Contents |-> 0]]
    /\ ryw = NoRun
    /\ reqs = <<>>
    /\ db0 = <<>>
    /\ episodes = [e \in Episodes |-> [likes |-> 0]]
    /\ tog = NoToggles
    /\ CacheAtStart

NextWide == \E r \in PageRequests : GetRandomFeed("", r[1], r[2])

SpecWide == InitWide /\ [][NextWide]_vars

\* --------------------------------------------------- the events of the writes
\* analyticsSchema: the enum of eventType and of category
EventTypes ==
    {"video_start", "video_end", "video_pause", "video_resume", "swipe_left", "swipe_right",
     "tap_episode", "like", "share", "app_open", "app_close", "session_start", "session_end",
     "content_view", "search", "error", "buffer_start", "buffer_end"}
Categories == {"user_interaction", "video_playback", "navigation", "engagement", "performance"}

\* the event each handler gives trackEvent before it answers 200
EventOf(op) ==
    IF op = "start" THEN [eventType |-> "video_start", category |-> "video_playback"]
    ELSE IF op = "progress" THEN [eventType |-> "video_progress", category |-> "video_playback"]
    ELSE IF op = "complete" THEN [eventType |-> "video_end", category |-> "video_playback"]
    ELSE IF op = "like" THEN [eventType |-> "like", category |-> "engagement"]
    ELSE IF op = "share" THEN [eventType |-> "share", category |-> "engagement"]
    ELSE [eventType |-> "rating", category |-> "engagement"]

\* does Analytics.create(event) pass the validation of the two enums?
Accepted(event) == event.eventType \in EventTypes /\ event.category \in Categories

\* ------------------------------------------------ episodes not yet published
\* The Episode collection with the status of each document: the handlers load
\* the episode with Episode.findById(episodeId), which reads no status.
InitDraft ==
    /\ watchlist = <<>>
    /\ content = [c \in Contents |-> [averageRating |-> Zero, totalRatings |-> 0]]
    /\ now = 0
    /\ response = Reply("none", 0, "", "", NoProgress)
    /\ rated = [u \in Users |-> [c \in Contents |-> 0]]
    /\ ryw = NoRun
    /\ reqs = <<>>
    /\ db0 = <<>>
    /\ episodes \in [Episodes -> {[likes |-> 0, status |-> x] : x \in Statuses}]
    /\ tog = NoToggles
    /\ CacheAtStart

NextDraft ==
    \/ \E u \in Viewers, e \in Episodes : GetEpisodeById(u, e)
    \/ \E u \in Viewers, e \in Episodes : StartWatching(u, e)
    \/ \E u \in Viewers, e \in Episodes, p \in WindowPositions : UpdateWatchProgress(u, e, p)

SpecDraft == InitDraft /\ [][NextDraft]_vars

\* ------------------------------------------------------ requests that overlap
\* Each request is one run of its handler, cut at the awaits on the store:
\* the findOne, the create, and the save of the document it holds. A save
\* writes the paths the handler changed on its copy ($set of the modified
\* paths by _id; versionKey is off), whatever the store holds by then.
Procs == {"r1", "r2"}
ConcOps == {"start", "progress", "like", "add"}
SeedPositions == {0, 1}

Idle == [op |-> "none", userId |-> "", episodeId |-> "", arg |-> 0,
         pc |-> "idle", idx |-> 0, doc |-> {}, code |-> 0, likes |-> 0, wasLiked |-> FALSE]

\* the collections the requests may find: empty, or u1's record on e1 as one
\* earlier progress update left it
Seeded(p) ==
    <<PreSave(UpdateProgressDoc(PreSave(NewRecord("u1", EpisodeContent("e1"), "e1", 0, Zero), 1), p), 1)>>

SeedCollections == {<<>>} \cup {Seeded(p) : p \in SeedPositions}

InitConc ==
    /\ watchlist \in SeedCollections
    /\ db0 = watchlist
    /\ now = Latest(watchlist, 0)
    /\ content = [c \in Contents |-> [averageRating |-> Zero, totalRatings |-> 0]]
    /\ response = Reply("none", 0, "", "", NoProgress)
    /\ rated = [u \in Users |-> [c \in Contents |-> 0]]
    /\ ryw = NoRun
    /\ reqs = [r \in Procs |-> Idle]
    /\ episodes = [e \in Episodes |-> [likes |-> 0]]
    /\ tog = NoToggles
    /\ CacheAtStart

\* a request arrives (arg: the position it submits, 0 for start and like);
\* toggleLike keeps the episode it loads first, to save it at its end
Receive(r, op, u, e, arg) ==
    /\ reqs[r].pc = "idle"
    /\ (op \in {"start", "like"} => arg = 0)
    /\ reqs' = [reqs EXCEPT ![r] = [Idle EXCEPT !.op = op, !.userId = u, !.episodeId = e,
                                               !.arg = arg,
                                               !.pc = IF op = "like" THEN "episode" ELSE "find"]]
    /\ UNCHANGED <<cacheVars, watchlist, content, now, response, rated, ryw, db0, episodes, tog>>

\* toggleLike: await Episode.findById(episodeId)
ReadEpisode(r) ==
    LET q == reqs[r]
    IN  /\ q.pc = "episode"
        /\ reqs' = [reqs EXCEPT ![r] = [q EXCEPT !.pc = "find", !.likes = episodes[q.episodeId].likes]]
        /\ UNCHANGED <<cacheVars, watchlist, content, now, response, rated, ryw, db0, episodes, tog>>

\* await Watchlist.findOne({ userId, episodeId })
Find(r) ==
    LET q == reqs[r]
        i == FindOne(watchlist, q.userId, q.episodeId)
    IN  /\ q.pc = "find"
        /\ reqs' = [reqs EXCEPT ![r] =
               IF i = 0 THEN [q EXCEPT !.pc = "create"]
               ELSE IF q.op = "add" THEN [q EXCEPT !.pc = "done", !.code = 200]
               ELSE [q EXCEPT !.pc = "save", !.idx = i, !.doc = {watchlist[i]}]]
        /\ UNCHANGED <<cacheVars, watchlist, content, now, response, rated, ryw, db0, episodes, tog>>

\* the document each handler creates when it found none
Created(q) ==
    IF q.op = "add"
    THEN NewRecord(q.userId, EpisodeContent(q.episodeId), q.episodeId, q.arg,
                   Percentage(q.arg, EpisodeDuration(q.episodeId)))
    ELSE NewRecord(q.userId, EpisodeContent(q.episodeId), q.episodeId, 0, Zero)

\* await Watchlist.create(...): the insert, or the duplicate-key error of the
\* unique index, which the error handler answers with 400
Create(r) ==
    LET q == reqs[r]
        t == now + 1
        d == Created(q)
        wl == Insert(watchlist, d, t)
    IN  /\ q.pc = "create"
        /\ Commit(wl)
        /\ reqs' = [reqs EXCEPT ![r] =
               IF wl = watchlist THEN [q EXCEPT !.pc = "done", !.code = 400]
               ELSE IF q.op \in {"start", "add"}
                    THEN [q EXCEPT !.pc = "done", !.code = IF q.op = "add" THEN 201 ELSE 200]
                    ELSE [q EXCEPT !.pc = "save", !.idx = Len(wl), !.doc = {wl[Len(wl)]}]]
        /\ UNCHANGED <<cacheVars, content, response, rated, ryw, db0, episodes, tog>>

\* what the handler does to the document it holds, up to and with the save hook
Changed(q, d, t) ==
    IF q.op = "progress" THEN PreSave(UpdateProgressDoc(d, q.arg), t)
    ELSE IF q.op = "like" THEN PreSave(ToggleLikeDoc(d), t)
    ELSE PreSave(d, t)

\* the stored document after a save of the paths that differ between the
\* document as loaded and as changed
WriteModified(stored, loaded, changed) ==
    [f \in DOMAIN stored |-> IF changed[f] # loaded[f] THEN changed[f] ELSE stored[f]]

\* await doc.save()
Save(r) ==
    LET q == reqs[r]
        t == now + 1
        loaded == CHOOSE d \in q.doc : TRUE
        changed == Changed(q, loaded, t)
    IN  /\ q.pc = "save"
        /\ Commit([watchlist EXCEPT ![q.idx] = WriteModified(@, loaded, changed)])
        /\ reqs' = [reqs EXCEPT ![r] =
               IF q.op = "like"
               THEN [q EXCEPT !.pc = "likes", !.doc = {changed}, !.wasLiked = loaded.liked]
               ELSE [q EXCEPT !.pc = "done", !.code = 200, !.doc = {changed}]]
        /\ UNCHANGED <<cacheVars, content, response, rated, ryw, db0, episodes, tog>>

\* toggleLike: the like counter moved on the handler's copy of the episode,
\* then await episode.save(), which writes the counter when it was changed
SaveEpisode(r) ==
    LET q == reqs[r]
        held == CHOOSE d \in q.doc : TRUE
        loaded == [likes |-> q.likes]
        changed == [likes |-> LikesAfter(q.likes, q.wasLiked, held.liked)]
    IN  /\ q.pc = "likes"
        /\ episodes' = [episodes EXCEPT ![q.episodeId] = WriteModified(@, loaded, changed)]
        /\ reqs' = [reqs EXCEPT ![r] = [q EXCEPT !.pc = "done", !.code = 200, !.likes = changed.likes]]
        /\ UNCHANGED <<cacheVars, watchlist, content, now, response, rated, ryw, db0, tog>>

NextConc ==
    \/ \E r \in Procs, op \in ConcOps, u \in Viewers, e \in Episodes, arg \in Positions :
           Receive(r, op, u, e, arg)
    \/ \E r \in Procs : ReadEpisode(r)
    \/ \E r \in Procs : Find(r)
    \/ \E r \in Procs : Create(r)
    \/ \E r \in Procs : Save(r)
    \/ \E r \in Procs : SaveEpisode(r)

SpecConc == InitConc /\ [][NextConc]_vars

\* toggleLike requests of either user on the episode shown
NextLikers ==
    \/ \E r \in Procs, u \in Users, e \in Shown : Receive(r, "like", u, e, 0)
    \/ \E r \in Procs : ReadEpisode(r)
    \/ \E r \in Procs : Find(r)
    \/ \E r \in Procs : Create(r)
    \/ \E r \in Procs : Save(r)
    \/ \E r \in Procs : SaveEpisode(r)

SpecLikers == InitConc /\ [][NextLikers]_vars

\* ------------------------------------- progress updates that carry engagement
\* Two updateWatchProgress requests with pauseCount, seekCount and
\* bufferingTime in their bodies, each cut at its awaits on the store: the
\* findOne, the create, the save of updateProgress and the save of
\* addEngagement.
Counters == {"pauseCount", "seekCount", "bufferingTime"}
Deltas == [Counters -> {0, 1}]
NoDelta == [c \in Counters |-> 0]
SeedCounts == {0, 1}
EngagedPositions == {2}

\* a record with the engagement paths, each at n (the schema default is 0)
WithEngagement(d, n) == [c \in Counters |-> n] @@ d

EngagedIdle == [op |-> "none", userId |-> "", episodeId |-> "", arg |-> 0, delta |-> NoDelta,
                pc |-> "idle", idx |-> 0, doc |-> {}, code |-> 0]

InitEngaged ==
    /\ watchlist \in {<<>>} \cup {<<WithEngagement(Seeded(1)[1], n)>> : n \in SeedCounts}
    /\ db0 = watchlist
    /\ now = Latest(watchlist, 0)
    /\ content = [c \in Contents |-> [averageRating |-> Zero, totalRatings |-> 0]]
    /\ response = Reply("none", 0, "", "", NoProgress)
    /\ rated = [u \in Users |-> [c \in Contents |-> 0]]
    /\ ryw = NoRun
    /\ reqs = [r \in Procs |-> EngagedIdle]
    /\ episodes = [e \in Episodes |-> [likes |-> 0]]
    /\ tog = NoToggles
    /\ CacheAtStart

\* PUT /api/episodes/:episodeId/progress arrives
EngagedReceive(r, u, e, p, delta) ==
    /\ reqs[r].pc = "idle"
    /\ reqs' = [reqs EXCEPT ![r] = [EngagedIdle EXCEPT !.op = "progress", !.userId = u,
                                                       !.episodeId = e, !.arg = p,
                                                       !.delta = delta, !.pc = "find"]]
    /\ UNCHANGED <<cacheVars, watchlist, content, now, response, rated, ryw, db0, episodes, tog>>

\* await Watchlist.findOne({ userId, episodeId })
EngagedFind(r) ==
    LET q == reqs[r]
        i == FindOne(watchlist, q.userId, q.episodeId)
    IN  /\ q.pc = "find"
        /\ reqs' = [reqs EXCEPT ![r] =
               IF i = 0 THEN [q EXCEPT !.pc = "create"]
               ELSE [q EXCEPT !.pc = "progress", !.idx = i, !.doc = {watchlist[i]}]]
        /\ UNCHANGED <<cacheVars, watchlist, content, now, response, rated, ryw, db0, episodes, tog>>

\* await Watchlist.create(...), or the duplicate-key error answered 400
EngagedCreate(r) ==
    LET q == reqs[r]
        t == now + 1
        d == WithEngagement(NewRecord(q.userId, EpisodeContent(q.episodeId), q.episodeId, 0, Zero), 0)
        wl == Insert(watchlist, d, t)
    IN  /\ q.pc = "create"
        /\ Commit(wl)
        /\ reqs' = [reqs EXCEPT ![r] =
               IF wl = watchlist THEN [q EXCEPT !.pc = "done", !.code = 400]
               ELSE [q EXCEPT !.pc = "progress", !.idx = Len(wl), !.doc = {wl[Len(wl)]}]]
        /\ UNCHANGED <<cacheVars, content, response, rated, ryw, db0, episodes, tog>>

\* if (pauseCount || seekCount || bufferingTime)
AnyDelta(delta) == \E c \in Counters : delta[c] # 0

\* await watchRecord.updateProgress(currentPosition, sessionDuration)
UpdateProgressSave(r) ==
    LET q == reqs[r]
        t == now + 1
        loaded == CHOOSE d \in q.doc : TRUE
        changed == PreSave(UpdateProgressDoc(loaded, q.arg), t)
    IN  /\ q.pc = "progress"
        /\ Commit([watchlist EXCEPT ![q.idx] = WriteModified(@, loaded, changed)])
        /\ reqs' = [reqs EXCEPT ![r] =
               IF AnyDelta(q.delta) THEN [q EXCEPT !.pc = "engagement", !.doc = {changed}]
               ELSE [q EXCEPT !.pc = "done", !.code = 200, !.doc = {changed}]]
        /\ UNCHANGED <<cacheVars, content, response, rated, ryw, db0, episodes, tog>>

\* the handler's argument of addEngagement: each counter of the document it
\* holds plus the request's
EngagementData(d, delta) == [c \in Counters |-> d[c] + delta[c]]

\* Object.assign(this.engagement, engagementData)
AddEngagementDoc(d, data) == [f \in DOMAIN d |-> IF f \in DOMAIN data THEN data[f] ELSE d[f]]

\* await watchRecord.addEngagement({...})
AddEngagementSave(r) ==
    LET q == reqs[r]
        t == now + 1
        loaded == CHOOSE d \in q.doc : TRUE
        changed == PreSave(AddEngagementDoc(loaded, EngagementData(loaded, q.delta)), t)
    IN  /\ q.pc = "engagement"
        /\ Commit([watchlist EXCEPT ![q.idx] = WriteModified(@, loaded, changed)])
        /\ reqs' = [reqs EXCEPT ![r] = [q EXCEPT !.pc = "done", !.code = 200, !.doc = {changed}]]
        /\ UNCHANGED <<cacheVars, content, response, rated, ryw, db0, episodes, tog>>

NextEngaged ==
    \/ \E r \in Procs, u \in Viewers, e \in Shown, p \in EngagedPositions, delta \in Deltas :
           EngagedReceive(r, u, e, p, delta)
    \/ \E r \in Procs : EngagedFind(r)
    \/ \E r \in Procs : EngagedCreate(r)
    \/ \E r \in Procs : UpdateProgressSave(r)
    \/ \E r \in Procs : AddEngagementSave(r)

SpecEngaged == InitEngaged /\ [][NextEngaged]_vars

\* ------------------------------------------------------- ratings that overlap
\* Two rateContent requests, each cut at its awaits: the findOne of the
\* user's record, the save of the rating on it, the findById of the title and
\* the save of the title, which writes the analytics paths the handler
\* changed on its copy.
RateIdle == [userId |-> "", contentId |-> "", rating |-> 0, pc |-> "idle",
             idx |-> 0, previousRating |-> 0, doc |-> {}, code |-> 0]

SeedOrder == <<"u1", "u2">>

\* every user has a record on e1; f[u] is the rating stored on it (0: none)
SeededRatings(f) ==
    [k \in 1 .. Len(SeedOrder) |->
        UpdateRatingDoc(PreSave(NewRecord(SeedOrder[k], EpisodeContent("e1"), "e1", 0, Zero), 1),
                        f[SeedOrder[k]])]

RECURSIVE SeededAggregate(_, _)
\* the aggregate the ratings of the first k users of SeedOrder left, each given once
SeededAggregate(f, k) ==
    IF k = 0 THEN [averageRating |-> Zero, totalRatings |-> 0]
    ELSE LET a == SeededAggregate(f, k - 1)
         IN  IF f[SeedOrder[k]] = 0 THEN a ELSE RatingAggregate(a, 0, f[SeedOrder[k]])

InitRate ==
    \E f \in [Users -> {0} \cup Ratings] :
        /\ watchlist = SeededRatings(f)
        /\ db0 = watchlist
        /\ content = [c \in Contents |-> SeededAggregate(f, Len(SeedOrder))]
        /\ rated = [u \in Users |-> [c \in Contents |-> f[u]]]
        /\ now = 0
        /\ response = Reply("none", 0, "", "", NoProgress)
        /\ ryw = NoRun
        /\ reqs = [r \in Procs |-> RateIdle]
        /\ episodes = [e \in Episodes |-> [likes |-> 0]]
        /\ tog = NoToggles
    /\ CacheAtStart

\* a rateContent request arrives, its rating within 1 .. 5
RateReceive(r, u, c, rating) ==
    /\ reqs[r].pc = "idle"
    /\ rating >= MinRating /\ rating <= MaxRating
    /\ reqs' = [reqs EXCEPT ![r] = [RateIdle EXCEPT !.userId = u, !.contentId = c,
                                                   !.rating = rating, !.pc = "find"]]
    /\ UNCHANGED <<cacheVars, watchlist, content, now, response, rated, ryw, db0, episodes, tog>>

\* await Watchlist.findOne({ userId, contentId })
RateFind(r) ==
    LET q == reqs[r]
        i == FindOneByContent(watchlist, q.userId, q.contentId)
    IN  /\ q.pc = "find"
        /\ reqs' = [reqs EXCEPT ![r] =
               IF i = 0 THEN [q EXCEPT !.pc = "done", !.code = 400]
               ELSE [q EXCEPT !.pc = "rating", !.idx = i, !.doc = {watchlist[i]},
                              !.previousRating = watchlist[i].rating]]
        /\ UNCHANGED <<cacheVars, watchlist, content, now, response, rated, ryw, db0, episodes, tog>>

\* await watchlistEntry.updateRating(rating)
RateSaveRecord(r) ==
    LET q == reqs[r]
        t == now + 1
        loaded == CHOOSE d \in q.doc : TRUE
        changed == PreSave(UpdateRatingDoc(loaded, q.rating), t)
    IN  /\ q.pc = "rating"
        /\ Commit([watchlist EXCEPT ![q.idx] = WriteModified(@, loaded, changed)])
        /\ rated' = [rated EXCEPT ![q.userId][q.contentId] = q.rating]
        /\ reqs' = [reqs EXCEPT ![r] = [q EXCEPT !.pc = "content", !.doc = {}]]
        /\ UNCHANGED <<cacheVars, content, response, ryw, db0, episodes, tog>>

\* await Content.findById(contentId)
RateReadContent(r) ==
    LET q == reqs[r]
    IN  /\ q.pc = "content"
        /\ reqs' = [reqs EXCEPT ![r] = [q EXCEPT !.pc = "aggregate", !.doc = {content[q.contentId]}]]
        /\ UNCHANGED <<cacheVars, watchlist, content, now, response, rated, ryw, db0, episodes, tog>>

\* the aggregate computed on the handler's copy, then await content.save()
RateSaveContent(r) ==
    LET q == reqs[r]
        loaded == CHOOSE a \in q.doc : TRUE
        changed == RatingAggregate(loaded, q.previousRating, q.rating)
    IN  /\ q.pc = "aggregate"
        /\ content' = IF ContentValid(changed)
                      THEN [content EXCEPT ![q.contentId] = WriteModified(@, loaded, changed)]
                      ELSE content
        /\ reqs' = [reqs EXCEPT ![r] = [q EXCEPT !.pc = "done", !.doc = {changed},
                                                 !.code = IF ContentValid(changed) THEN 200 ELSE 400]]
        /\ UNCHANGED <<cacheVars, watchlist, now, response, rated, ryw, db0, episodes, tog>>

NextRate ==
    \/ \E r \in Procs, u \in Users, c \in Contents, rating \in Ratings : RateReceive(r, u, c, rating)
    \/ \E r \in Procs : RateFind(r)
    \/ \E r \in Procs : RateSaveRecord(r)
    \/ \E r \in Procs : RateReadContent(r)
    \/ \E r \in Procs : RateSaveContent(r)

SpecRate == InitRate /\ [][NextRate]_vars

\* ------------------------------------------------------------------ claims
Has(u, e) == FindOne(watchlist, u, e) # 0
Rec(u, e) == watchlist[FindOne(watchlist, u, e)]

\* the step is the handling of a request op by user u on episode e: every
\* handler leaves its own name in the response
Handled(op, u, e) ==
    /\ response'.op = op /\ response'.userId = u /\ response'.episodeId = e
    /\ response'.code \in {200, 201}

\* C1: every updateProgress call leaves the record's currentPosition at
\* max(old position, submitted position), so never below what it was (the
\* submitted positions of a run of calls have the maximum ryw.mx).
C1_PositionNeverDecreases ==
    [][\A u \in Users, e \in Episodes :
         (Has(u, e) /\ Handled("progress", u, e)) =>
             /\ Has(u, e)'
             /\ Rec(u, e)'.currentPosition >= Rec(u, e).currentPosition
             /\ Rec(u, e)'.currentPosition = Max(Rec(u, e).currentPosition, ryw'.mx)]_vars

\* a second progress update answered on a record whose position is above zero
C1_Witness ==
    /\ response.op = "progress" /\ response.code = 200
    /\ ryw.n = 2
    /\ Has(ryw.userId, ryw.episodeId)
    /\ Rec(ryw.userId, ryw.episodeId).currentPosition > 0

\* C2: in every state every WatchRecord has isCompleted exactly when its
\* percentageWatched is at least 80.
C2_CompletedIffEighty ==
    \A i \in 1 .. Len(watchlist) :
        watchlist[i].isCompleted <=> ReachedThreshold(watchlist[i].percentageWatched)

\* C3: a progress update on a record that is completed with at least 80%
\* watched leaves it completed, with the completedAt it had.
C3_CompletionStable ==
    [][\A u \in Users, e \in Episodes :
         (/\ Has(u, e)
          /\ Rec(u, e).isCompleted
          /\ ReachedThreshold(Rec(u, e).percentageWatched)
          /\ Handled("progress", u, e)) =>
             /\ Rec(u, e).completedAt # 0
             /\ Rec(u, e)'.isCompleted
             /\ Rec(u, e)'.status = "completed"
             /\ Rec(u, e)'.completedAt = Rec(u, e).completedAt]_vars

\* two progress updates answered in a row on a record that was completed,
\* above 80%, before the first of them
C3_Witness ==
    /\ response.op = "progress" /\ response.code = 200
    /\ ryw.n = 2
    /\ Has(ryw.userId, ryw.episodeId)
    /\ LET d == Rec(ryw.userId, ryw.episodeId)
       IN  /\ d.currentPosition > ryw.mx
           /\ ReachedThreshold(d.percentageWatched)
           /\ d.isCompleted /\ d.status = "completed" /\ d.completedAt # 0

\* C4: markCompleted on a record that already has a completedAt leaves that
\* completedAt as it was.
C4_MarkCompletedIdempotent ==
    [][\A u \in Users, e \in Episodes :
         (Has(u, e) /\ Rec(u, e).completedAt # 0 /\ Handled("complete", u, e)) =>
             Rec(u, e)'.completedAt = Rec(u, e).completedAt]_vars

\* C5: in every state every WatchRecord has its position within
\* 0 .. totalDuration and its percentage within 0 .. 100, equal to
\* 100 * currentPosition / totalDuration.
C5_ProgressInRange ==
    \A i \in 1 .. Len(watchlist) :
        LET d == watchlist[i]
        IN  /\ 0 <= d.currentPosition /\ d.currentPosition <= d.totalDuration
            /\ RatGE(d.percentageWatched, Zero)
            /\ RatLE(d.percentageWatched, RatOfInt(100))
            /\ d.percentageWatched = Percentage(d.currentPosition, d.totalDuration)

\* the last request was a read, by the user of the current run of progress
\* updates, that covers the run's episode
ReadAfterRun ==
    /\ ryw.n = 2
    /\ response.userId = ryw.userId
    /\ \/ response.op = "episode" /\ response.episodeId = ryw.episodeId
       \/ response.op = "episodes"

\* C6: after two acknowledged progress updates on one record, every read of
\* that record by the same user (episode details, episode-list overlay)
\* reports a currentPosition of at least the larger submitted position.
C6_ReadYourWrites ==
    ReadAfterRun =>
        \E x \in response.data :
            x.episodeId = ryw.episodeId /\ x.currentPosition >= ryw.mx

\* the part of C6 that the episode-details read alone keeps
C6_EpisodeDetailsRead ==
    (ReadAfterRun /\ response.op = "episode") =>
        \E x \in response.data :
            x.episodeId = ryw.episodeId /\ x.currentPosition >= ryw.mx

\* ---------------------------------------------- claims on overlapping requests
AllDone == \A r \in Procs : reqs[r].pc = "done"

\* the record two progress updates leave when run one after the other on d
Serial(d, p, q) == PreSave(UpdateProgressDoc(PreSave(UpdateProgressDoc(d, p), 1), q), 1)

\* a record without its instants
Timeless(d) == [d EXCEPT !.completedAt = IF @ = 0 THEN 0 ELSE 1]

\* C7: two overlapping updateProgress requests on one record, both answered,
\* leave the record some serial order of the two leaves it: its position is
\* the maximum of the initial and the two submitted positions.
C7_WritesSerialized ==
    \A r1, r2 \in Procs :
        (/\ r1 # r2 /\ AllDone
         /\ reqs[r1].op = "progress" /\ reqs[r2].op = "progress"
         /\ reqs[r1].code = 200 /\ reqs[r2].code = 200
         /\ reqs[r1].userId = reqs[r2].userId
         /\ reqs[r1].episodeId = reqs[r2].episodeId) =>
            LET u == reqs[r1].userId
                e == reqs[r1].episodeId
                i0 == FindOne(db0, u, e)
                d0 == IF i0 = 0 THEN NewRecord(u, EpisodeContent(e), e, 0, Zero) ELSE db0[i0]
            IN  /\ Has(u, e)
                /\ Rec(u, e).currentPosition =
                       Max(d0.currentPosition, Max(reqs[r1].arg, reqs[r2].arg))
                /\ Timeless(Rec(u, e)) \in
                       {Timeless(Serial(d0, reqs[r1].arg, reqs[r2].arg)),
                        Timeless(Serial(d0, reqs[r2].arg, reqs[r1].arg))}

\* C8: in every state, whatever the overlap of the requests that look a
\* record up and create it when absent, no two WatchRecords have the same
\* (userId, episodeId).
C8_OneRecordPerKey ==
    \A i, j \in 1 .. Len(watchlist) :
        (watchlist[i].userId = watchlist[j].userId
         /\ watchlist[i].episodeId = watchlist[j].episodeId) => i = j

\* two requests both found no record and both went on to create it; one
\* insert was refused by the index
C8_Witness ==
    \E r1, r2 \in Procs :
        /\ reqs[r1].pc = "done" /\ reqs[r1].code = 400
        /\ reqs[r2].pc = "done" /\ reqs[r2].code \in {200, 201}
        /\ reqs[r1].userId = reqs[r2].userId /\ reqs[r1].episodeId = reqs[r2].episodeId
        /\ db0 = <<>>
        /\ Has(reqs[r1].userId, reqs[r1].episodeId)

\* ------------------------------------------------- claims on the rating aggregate
RECURSIVE SumRated(_, _)
\* the sum over the users of U of the latest rating each gave title c
SumRated(U, c) ==
    IF U = {} THEN 0
    ELSE LET u == CHOOSE x \in U : TRUE
         IN  rated[u][c] + SumRated(U \ {u}, c)

Raters(c) == {u \in Users : rated[u][c] # 0}

AverageRating(c) == content[c].averageRating
TotalRatings(c) == content[c].totalRatings

\* C9: a title with totalRatings = N > 0 has its averageRating within 0 .. 5,
\* N is the number of users who rated it, and averageRating * N is the sum of
\* their latest ratings.
C9_AverageIsMeanOfRaters ==
    \A c \in Contents :
        TotalRatings(c) > 0 =>
            /\ RatGE(AverageRating(c), Zero)
            /\ RatLE(AverageRating(c), RatOfInt(MaxRating))
            /\ TotalRatings(c) = Cardinality(Raters(c))
            /\ RatMul(AverageRating(c), RatOfInt(TotalRatings(c))) = RatOfInt(SumRated(Raters(c), c))

\* the step is an accepted setRating by u on title c
Rates(u, c) ==
    /\ response'.op = "rate" /\ response'.code = 200 /\ response'.userId = u
    /\ rated'[u][c] # 0

\* the aggregate after the step is the one a rating r1 in place of r0 gives
Replaced(c, r0, r1) ==
    /\ TotalRatings(c) > 0
    /\ TotalRatings(c)' = TotalRatings(c)
    /\ RatSub(AverageRating(c)', AverageRating(c)) = Rat(r1 - r0, TotalRatings(c))

\* the aggregate after the step is the one a first rating r gives
Added(c, r) ==
    /\ TotalRatings(c)' = TotalRatings(c) + 1
    /\ AverageRating(c)' =
           Rat(AverageRating(c)[1] * TotalRatings(c) + r * AverageRating(c)[2],
               AverageRating(c)[2] * (TotalRatings(c) + 1))

\* C10: setRating r1 by a user whose latest rating of the title was r0 leaves
\* totalRatings as it was and moves averageRating by (r1 - r0) / N; by a
\* user who had not rated it, it makes N + 1 ratings averaging
\* (avg * N + r1) / (N + 1).
C10_ReplacementRating ==
    [][\A u \in Users, c \in Contents :
         Rates(u, c) =>
             IF rated[u][c] # 0
             THEN Replaced(c, rated[u][c], rated'[u][c])
             ELSE Added(c, rated'[u][c])]_vars

\* what does hold of setRating: the same, with for previous rating the one
\* stored on the record findOne({userId, contentId}) returns
C10_StoredRatingReplaced ==
    [][\A u \in Users, c \in Contents :
         (Rates(u, c) /\ FindOneByContent(watchlist, u, c) # 0) =>
             LET previousRating == watchlist[FindOneByContent(watchlist, u, c)].rating
             IN  IF previousRating # 0
                 THEN Replaced(c, previousRating, rated'[u][c])
                 ELSE Added(c, rated'[u][c])]_vars

\* ------------------------------------------- claims on overlapping ratings
\* the users whose record held no rating when the requests began
FirstTimers(U) == {u \in U : db0[FindOneByContent(db0, u, "c1")].rating = 0}

\* the number of ratings the title counted when the requests began
RatingsAtStart == Cardinality({i \in 1 .. Len(db0) : db0[i].rating # 0})

\* C11: two overlapping setRating requests by different users on one title,
\* both answered: totalRatings has grown by one per first-time rater and
\* averageRating * totalRatings is the sum of all the ratings.
C11_RatingAggregateAtomic ==
    \A r1, r2 \in Procs :
        (/\ AllDone
         /\ reqs[r1].code = 200 /\ reqs[r2].code = 200
         /\ reqs[r1].userId # reqs[r2].userId
         /\ reqs[r1].contentId = reqs[r2].contentId) =>
            LET c == reqs[r1].contentId
                U == {reqs[r1].userId, reqs[r2].userId}
            IN  /\ TotalRatings(c) = RatingsAtStart + Cardinality(FirstTimers(U))
                /\ RatMul(AverageRating(c), RatOfInt(TotalRatings(c)))
                       = RatOfInt(SumRated(Raters(c), c))

\* ------------------------------------------------- claims on rating unwatched
\* the step is the handling of a setRating request by user u
RateHandled(u) == response'.op = "rate" /\ response'.userId = u

\* C12: setRating by a user who has no WatchRecord on any episode of the
\* title is answered 400 and leaves the title's averageRating and
\* totalRatings and every WatchRecord as they were.
C12_RatingNeedsWatchRecord ==
    [][\A u \in Users, c \in Contents :
         (MatchesContent(watchlist, u, c) = {} /\ RateHandled(u)) =>
             /\ response'.code = 400
             /\ content' = content
             /\ watchlist' = watchlist]_vars

\* a setRating was refused to a user without a record on the title, while the
\* title has a record of another user and ratings counted
C12_Witness ==
    /\ response.op = "rate" /\ response.code = 400
    /\ \E c \in Contents :
           /\ MatchesContent(watchlist, response.userId, c) = {}
           /\ \E i \in 1 .. Len(watchlist) : watchlist[i].contentId = c
           /\ TotalRatings(c) > 0

\* ------------------------------------------------------- claims on likes
Likes(e) == episodes[e].likes

\* C13: the second of two successive toggleLike calls on one (user, episode)
\* leaves the user's like flag and the episode's like counter at the values
\* they had before the first; no toggleLike changes the title's counters.
C13_ToggleTwiceRestores ==
    [][\A u \in Users, e \in Episodes :
         Handled("like", u, e) =>
             /\ content' = content
             /\ (tog.userId = u /\ tog.episodeId = e /\ tog.n = 1) =>
                    /\ Has(u, e)'
                    /\ Rec(u, e)'.liked = tog.liked
                    /\ Likes(e)' = tog.likes]_vars

\* a user unliked and liked again an episode that two users like
C13_Witness ==
    /\ response.op = "like" /\ tog.n = 2
    /\ tog.liked /\ tog.likes = 2
    /\ Rec(tog.userId, tog.episodeId).liked
    /\ Likes(tog.episodeId) = 2

\* C14: in every state, whatever the overlap of the toggleLike requests, no
\* episode's like counter is below zero.
C14_LikesNeverNegative == \A e \in Episodes : Likes(e) >= 0

C16_TagInvalidationEvicts ==
    (ret.op = "invalidateByTags" /\ ret.ok) =>
        \A k \in DOMAIN cache : cache[k].tags \cap ret.tags = {}

\* the step is a continue-watching read of user u that getCache answered
ContinueHit(u) ==
    /\ Handled("continue", u, "")
    /\ time' = time
    /\ ret'.op = "getCache" /\ ret'.hit # {}

\* C17: after a progress write (startWatching, updateProgress, markCompleted)
\* of user u has returned, no continue-watching read of u is answered from a
\* cache entry that was stored before that write.
C17_ProgressWriteEvicts ==
    [][\A u \in Viewers : ContinueHit(u) => ~cache[ret'.key].outdated]_vars

\* C18: every cache operation (get, set, delete, deletePattern, setWithTags,
\* invalidateByTags) returns without raising when the store throws or no
\* client is connected, and a get then reports a miss.
C18_CacheBestEffort ==
    /\ ~ret.raised
    /\ ret.op \in {"get", "getCache"} /\ (redis # "ready" \/ ~ret.ok) => ret.hit = {}

\* a get whose call threw although the entry is stored
C18_Witness ==
    /\ ret.op = "get" /\ ~ret.ok /\ redis = "ready"
    /\ GenerateKey(ret.key) \in DOMAIN cache

\* the call the last response answered
Call == reqs[1]

C20_FeedPageDistinctAndTagged ==
    response.op = "feed" =>
        /\ \A i, j \in 1 .. Len(response.data) :
               response.data[i].id = response.data[j].id => i = j
        /\ \A i \in 1 .. Len(response.data) :
               response.data[i].feedSource \in {"personalized", "trending", "popular", "fresh"}

\* a page of three cards from a catalogue whose Titles are all in every pool's
\* query, answered from the cache
C20_Witness ==
    /\ response.op = "feed" /\ Len(response.data) = 3
    /\ \A t \in Titles : content[t].listed /\ content[t].age = "week" /\ content[t].genre = "drama"
    /\ ret.hit # {}

\* C21: getFeed for user u with excludeWatched = true returns no card of a
\* Title that u has a WatchRecord against.
C21_WatchedTitlesExcluded ==
    response.op = "feed" /\ Call.excludeWatched =>
        \A i \in 1 .. Len(response.data) :
            response.data[i].id \notin Watched(watchlist, Call.userId)

C23_PrefetchFailureIsolated ==
    response.op = "prefetched" =>
        /\ response.code = 200
        /\ \A i \in 1 .. Len(response.data) :
               LET card == response.data[i]
               IN  /\ Len(card.prefetchData) = 1
                   /\ card.prefetchData[1].contentId = card.id
                   /\ i \in Call.fails => card.prefetchData[1].nextEpisodes = <<>>
                   /\ i \notin Call.fails =>
                          /\ Len(card.prefetchData[1].nextEpisodes) = Len(Upcoming(card.id))
                          /\ \A k \in 1 .. Len(Upcoming(card.id)) :
                                 card.prefetchData[1].nextEpisodes[k].episodeId = Upcoming(card.id)[k]

\* the prefetch of the first card failed, and the second card, of Title t1,
\* has the two episodes of t1
C23_Witness ==
    /\ response.op = "prefetched" /\ Call.fails = {1}
    /\ Len(response.data) >= 2
    /\ response.data[2].id = "t1"
    /\ Len(response.data[2].prefetchData[1].nextEpisodes) = 2
    /\ response.data[1].prefetchData[1].prefetchStrategy = "none"

\* C24: whenever feed generation succeeds (or the page is in the cache),
\* getFeed answers the page, whether or not the content_view event can be
\* built, validated or saved.
C24_AnalyticsFireAndForget ==
    response.op = "feed" /\ (Call.failed = 0 \/ ret.hit # {}) =>
        /\ response.code = 200
        /\ ret.hit # {} => response.data \in ret.hit
        /\ ret.hit = {} => response.data \in GenerateRandomFeed(content, PreferredGenres(Call.userId),
                                                                 Call.limit, Call.offset)

\* a page of two cards answered on a miss although the store rejected the
\* create of the event
C24_Witness ==
    /\ response.op = "feed" /\ response.code = 200
    /\ Call.sink = "saveFails" /\ ret.hit = {}
    /\ Len(response.data) = 2

\* C25: a get of a key that was set and has not expired returns a result
\* that differs from the result of a get of a key that was never set,
\* whatever value was set, a nil one (null, false, 0, "") included.
C25_CachedNilIsNotAMiss ==
    (ret.op = "get" /\ ret.ok /\ GenerateKey(ret.key) \in DOMAIN cache) => ret.hit # {}

\* C26: no write lowers a record's currentPosition: over any sequence of
\* startWatching, updateProgress, markCompleted (with any finalPosition),
\* toggleLike, share and rate on one record, the position after each
\* operation is at least the position before it.
C26_NoWriteLowersPosition ==
    [][\A u \in Users, e \in Episodes :
         (Has(u, e) /\ Has(u, e)') =>
             Rec(u, e)'.currentPosition >= Rec(u, e).currentPosition]_vars

\* C27: two overlapping requests on one (userId, episodeId) that has no
\* record yet, each a startWatching, an updateProgress or a toggleLike, are
\* both answered with success in every interleaving: neither fails on the
\* duplicate key.
C27_FirstRequestsBothSucceed ==
    \A r1, r2 \in Procs :
        (/\ r1 # r2
         /\ reqs[r1].pc = "done" /\ reqs[r2].pc = "done"
         /\ reqs[r1].op \in {"start", "progress", "like"}
         /\ reqs[r2].op \in {"start", "progress", "like"}
         /\ reqs[r1].userId = reqs[r2].userId
         /\ reqs[r1].episodeId = reqs[r2].episodeId
         /\ FindOne(db0, reqs[r1].userId, reqs[r1].episodeId) = 0) =>
            reqs[r1].code = 200 /\ reqs[r2].code = 200

Adjustment(q) ==
    LET held == CHOOSE d \in q.doc : TRUE
    IN  IF held.liked /\ ~q.wasLiked THEN 1
        ELSE IF ~held.liked /\ q.wasLiked THEN 0 - 1
        ELSE 0

\* C29: toggleLike requests by two different users on one episode, in any
\* interleaving, both answered, leave the episode's like counter changed by
\* the sum of their two adjustments (the counter starts at 0).
C29_LikeCounterAtomic ==
    \A r1, r2 \in Procs :
        (/\ r1 # r2 /\ AllDone
         /\ reqs[r1].op = "like" /\ reqs[r2].op = "like"
         /\ reqs[r1].code = 200 /\ reqs[r2].code = 200
         /\ reqs[r1].userId # reqs[r2].userId
         /\ reqs[r1].episodeId = reqs[r2].episodeId) =>
            Likes(reqs[r1].episodeId) = Adjustment(reqs[r1]) + Adjustment(reqs[r2])

\* the inputs of a getRandomFeed request
Inputs(q) == <<q.userId, q.limit, q.offset, q.genre, q.excludeWatched>>

\* the response is a page the handler generated and stored under its key
Generated ==
    /\ response.op = "feed" /\ response.code = 200
    /\ ret.op = "getCache" /\ ret.ok /\ ret.hit = {}
    /\ ret.key \in DOMAIN cache

\* C30: a request is answered from the cache entry an earlier request left
\* only if the two agree on every input (userId or its absence, limit,
\* offset, genre, excludeWatched): the page generated for one combination of
\* inputs is never the answer to another.
C30_CacheKeyCoversInputs ==
    [][(/\ Generated
        /\ response'.op = "feed" /\ ret'.op = "getCache" /\ ret'.hit # {}
        /\ ret'.key = ret.key)
           => Inputs(Call') = Inputs(Call)]_vars

\* C31: every card of a feed page carries a first episode: a Title with no
\* published episode is dropped from the page, which is still returned.
C31_EveryCardHasFirstEpisode ==
    response.op = "cards" =>
        /\ response.code = 200
        /\ \A i \in DOMAIN response.data : response.data[i].firstEpisode # <<>>

\* C32: episode details, startWatching and updateProgress on an episode whose
\* status is not published are not answered with the episode, and leave no
\* WatchRecord on it.
C32_UnpublishedEpisodeHidden ==
    \A e \in Episodes :
        episodes[e].status # "published" =>
            /\ \A u \in Users : ~Has(u, e)
            /\ (response.op \in {"episode", "start", "progress"} /\ response.episodeId = e)
                   => response.code # 200

\* C33: the event of every answered write (startWatching, updateProgress,
\* markCompleted, toggleLike, share, rate) has an eventType of the sink's
\* set and a category of its five, so the sink accepts it.
C33_EventsAccepted ==
    (response.op \in {"start", "progress", "complete", "like", "share", "rate"}
     /\ response.code = 200) => Accepted(EventOf(response.op))

\* the published episodes of the Title that follow episode first in
\* (seasonNumber, episodeNumber) order, in that order
Following(eps, t, first) ==
    SortEpisodes(eps, {e \in PublishedOf(eps, t) : EpisodeBefore(eps[first], eps[e])})

\* C34: the prefetch block of a card lists the published episodes of its
\* Title that immediately follow the card's first episode in (seasonNumber,
\* episodeNumber) order, at most 5 and in that order, with one season or
\* several.
C34_BlockListsFollowingEpisodes ==
    response.op = "next" =>
        \A i \in DOMAIN response.data :
            LET b == response.data[i]
            IN  b.firstEpisode # <<>> =>
                    b.nextEpisodes = Limit(Following(episodes, b.contentId, b.firstEpisode[1]),
                                           NextCount)

\* C35: the streamUrl of an upcoming episode is the URL of its 720p variant
\* when it has one, and otherwise the URL of the first of its variants in
\* stored order, whatever variants it has; the variants keep their stored
\* order.
C35_StreamUrlOfVariants ==
    response.op = "urls" =>
        \A i \in DOMAIN response.data :
            LET b == response.data[i]
                stored == episodes[b.episodeId].qualityOptions
                hd == SelectSeq(stored, LAMBDA x : x.resolution = "720p")
            IN  stored # <<>> =>
                    /\ b.streamUrl = IF hd # <<>> THEN hd[1].url ELSE stored[1].url
                    /\ b.qualityOptions = stored

\* C36: _algorithmScore minus the jitter equals 0.3*popularityScore +
\* 0.2*trendingScore + 10*feedPriority + 5*feedWeight + 20 for a genre match
\* + 15 for a language match + 10 within 7 days of publication, else 5 within
\* 30 + 0.1*completionRate, with 0 <= jitter < 10, for every field value,
\* feedWeight = 0 and scores of 0 included (both sides in tenths).
C36_ScoreIsWeightedSum ==
    response.op = "score" =>
        \A k \in DOMAIN response.data :
            LET item == content[response.data[k].id]
                prefs == reqs[1].userPreferences
                jitter == reqs[1].random[response.data[k].id]
                days == now - item.publishedAt
            IN  /\ 0 <= jitter /\ jitter < 10 * 10
                /\ response.data[k]._algorithmScore - jitter =
                       3 * item.analytics.popularityScore
                       + 2 * item.analytics.trendingScore
                       + 100 * item.feedSettings.feedPriority
                       + 50 * item.feedSettings.feedWeight
                       + (IF \E a \in DOMAIN item.genre, b \in DOMAIN prefs.genres :
                                item.genre[a] = prefs.genres[b] THEN 200 ELSE 0)
                       + (IF \E a \in DOMAIN item.language, b \in DOMAIN prefs.languages :
                                item.language[a] = prefs.languages[b] THEN 150 ELSE 0)
                       + (IF days < 7 THEN 100 ELSE IF days < 30 THEN 50 ELSE 0)
                       + item.analytics.completionRate

\* C37: invalidateByTags(T) removes only entries associated with a tag of T:
\* a key that was last written by a setWithTags whose tags are disjoint from
\* T is still a hit, with its value, when invalidateByTags(T) has returned.
C37_InvalidationSparesOtherTags ==
    [][(ret'.op = "invalidateByTags" /\ time' = time) =>
           \A k \in DOMAIN cache :
               (cache[k].tags # {} /\ cache[k].tags \cap ret'.tags = {}) =>
                   k \in DOMAIN cache' /\ cache'[k] = cache[k]]_vars

\* C38: once a WatchRecord is completed it stays completed, with status
\* completed, under every later startWatching, updateProgress, markCompleted,
\* toggleLike, share and rate on it.
C38_CompletionKept ==
    [][\A u \in Users, e \in Episodes :
         (Has(u, e) /\ Rec(u, e).isCompleted) =>
             /\ Has(u, e)'
             /\ Rec(u, e)'.isCompleted
             /\ Rec(u, e)'.status = "completed"]_vars

\* a progress update answered on a record that was marked completed below
\* the threshold: it is still completed
C38_Witness ==
    /\ response.op = "progress" /\ response.code = 200
    /\ Has(response.userId, response.episodeId)
    /\ LET d == Rec(response.userId, response.episodeId)
       IN  /\ d.currentPosition # 0
           /\ ~ReachedThreshold(d.percentageWatched)
           /\ d.isCompleted /\ d.status = "completed"

C40_PageWithinPools ==
    (response.op = "feed" /\ response.code = 200) =>
        LET L == Call.limit
            o == Call.offset
            bound == (4 * L + 9) \div 10 + (3 * L + 9) \div 10
                     + (2 * L + 9) \div 10 + (L + 9) \div 10
        IN  /\ Len(response.data) <= Max(0, bound - o)
            /\ Len(response.data) <= L
            /\ o >= bound => response.data = <<>>

\* a page of limit 2 at offset 3 that holds the one Card the pools leave,
\* on a catalogue of more eligible Titles than the pools hold
C40_Witness ==
    /\ response.op = "feed" /\ response.code = 200
    /\ Call.limit = 2 /\ Call.offset = 3
    /\ Len(response.data) = 1
    /\ Cardinality(BaseQuery(content)) > 4

====
